---- MODULE Spec2Model ----
(***************************************************************************)
(* toolcall: the JSON-RPC request dispatcher of serve() (handleRequest),   *)
(* the tool registry it closes over, the Zod parameter validation it       *)
(* calls, and the wire-schema translation used by tools/list; the stdio    *)
(* and HTTP transports that feed it (SpecTransport); and the McpClient     *)
(* with its handshake, its calls and its subordinate process (SpecClient). *)
(*                                                                         *)
(* JSON values are tagged records, so that the number 1 and the string     *)
(* "1" stay different values and a missing key differs from a present one. *)
(* Objects are sequences of entries [k, v] in insertion order.             *)
(***************************************************************************)
EXTENDS Integers, Sequences, FiniteSets, TLC

VARIABLES
    tools,       \* the registry handleRequest closes over (entries in insertion order)
    serverInfo,  \* { name, version } built by serve() from its config
    inflight,    \* dispatches suspended at `await toolDef.execute(...)`, in arrival order
    last,        \* the dispatch whose promise settled most recently
    handled,     \* number of handleRequest invocations so far
    transport,   \* who calls the handler: "direct", "stdio" or "http"
    pending,     \* transport callbacks suspended at `await handler(request)`
    io,          \* what the transport has read and written so far
    wire,        \* the latest step of a transport callback and what it wrote
    client,      \* the fields of the McpClient that connect() constructs
    proc,        \* the subordinate process: "none", "running", "killed" or "exited"
    handshake,   \* the position of the connect() call and the responses it received
    calls,       \* the call() invocations made on the client, in the order made
    sent,        \* the requests written to the peer, in the order written
    api          \* what the caller of the client has seen: the list listTools()
                 \* returned last, the close() calls made, the process.kill() calls

serverVars == <<tools, serverInfo, inflight, last, handled, transport, pending, io, wire>>
clientVars == <<client, proc, handshake, calls, sent, api>>
vars == <<tools, serverInfo, inflight, last, handled, transport, pending, io, wire,
          client, proc, handshake, calls, sent, api>>

\* ------------------------------------------------------------------ bounds
MaxRequests == 2
MaxInFlight == 2
MaxLines == 3
MaxPending == 2
MaxCalls == 2
MaxCloses == 2
MaxFields == 2

\* ------------------------------------------------------------ JSON values
Undefined == [t |-> "undefined"]
Null == [t |-> "null"]
Num(n) == [t |-> "number", n |-> n]
Str(s) == [t |-> "string", s |-> s]
Arr(items) == [t |-> "array", a |-> items]
Obj(entries) == [t |-> "object", e |-> entries]
Entry(key, value) == [k |-> key, v |-> value]
EmptyObject == Obj(<<>>)

\* An object literal { k1: v1, ... }: a later duplicate key replaces nothing here,
\* the literals of the source never repeat a key.
HasKey(o, key) ==
    /\ o.t = "object"
    /\ \E i \in DOMAIN o.e : o.e[i].k = key

\* Property read o[key] / destructuring { key } = o on a value that is neither
\* null nor undefined: a missing property, and any property of a primitive or an
\* array that JSON cannot carry, reads as undefined.
Get(o, key) ==
    IF HasKey(o, key)
    THEN o.e[CHOOSE i \in DOMAIN o.e : o.e[i].k = key].v
    ELSE Undefined

\* Destructuring or member access on null / undefined throws a TypeError.
IsNullish(v) == v.t \in {"null", "undefined"}

\* Mutant (C13): the left operand is used as it is.
CoalesceNever(a, b) == a

\* `a ?? b`
Coalesce(a, b) == IF IsNullish(a) THEN b ELSE a

Digit(d) ==
    CASE d = 0 -> "0" [] d = 1 -> "1" [] d = 2 -> "2" [] d = 3 -> "3" [] d = 4 -> "4"
      [] d = 5 -> "5" [] d = 6 -> "6" [] d = 7 -> "7" [] d = 8 -> "8" [] d = 9 -> "9"

RECURSIVE NatText(_)
NatText(n) == IF n < 10 THEN Digit(n) ELSE NatText(n \div 10) \o Digit(n % 10)

IntText(n) == IF n < 0 THEN "-" \o NatText(-n) ELSE NatText(n)

\* String(v), which is also what a template literal `${v}` and a property key
\* conversion tools[v] apply.
ToStr(v) ==
    CASE v.t = "string" -> v.s
      [] v.t = "number" -> IntText(v.n)
      [] v.t = "undefined" -> "undefined"
      [] v.t = "null" -> "null"
      [] v.t = "object" -> "[object Object]"
      [] v.t = "Error" -> "Error: " \o v.message

\* A thrown Error instance, and a TypeError raised by the runtime.
Err(msg) == [t |-> "Error", message |-> msg]

\* ------------------------------------------------- parameter schemas (Zod)
\* z.string() / z.number() as an object field, with .optional() and .default(v).
Field(name, type) ==
    [name |-> name, type |-> type, optional |-> FALSE, hasDefault |-> FALSE, default |-> Undefined]
OptionalField(name, type) ==
    [name |-> name, type |-> type, optional |-> TRUE, hasDefault |-> FALSE, default |-> Undefined]
DefaultField(name, type, value) ==
    [name |-> name, type |-> type, optional |-> FALSE, hasDefault |-> TRUE, default |-> value]

\* z.object({ ...fields }) in declaration order, and a bare z.string() / z.number().
ZObject(fields) == [root |-> "object", fields |-> fields]
ZPrimitive(type) == [root |-> type, fields |-> <<>>]

\* The type name Zod reports for a received value.
ParsedType(v) == v.t

\* One field of z.object: a default fills in a missing value, an optional field
\* may stay missing, anything else missing is "Required"; a present value must
\* have the declared type.
ParseField(f, input) ==
    LET raw == Get(input, f.name) IN
    IF raw = Undefined
    THEN IF f.hasDefault
         THEN [ok |-> TRUE, present |-> TRUE, name |-> f.name, value |-> f.default, issue |-> ""]
         ELSE IF f.optional
              THEN [ok |-> TRUE, present |-> FALSE, name |-> f.name, value |-> Undefined, issue |-> ""]
              ELSE [ok |-> FALSE, present |-> FALSE, name |-> f.name, value |-> Undefined,
                    issue |-> "Required"]
    ELSE IF raw.t = f.type
         THEN [ok |-> TRUE, present |-> TRUE, name |-> f.name, value |-> raw, issue |-> ""]
         ELSE [ok |-> FALSE, present |-> FALSE, name |-> f.name, value |-> Undefined,
               issue |-> "Expected " \o f.type \o ", received " \o ParsedType(raw)]

IsIssue(r) == ~r.ok
IsPresent(r) == r.present

\* ZodError.format(): { _errors: [root messages], <field>: { _errors: [messages] } }.
FormatIssue(r) == Entry(r.name, Obj(<<Entry("_errors", Arr(<<Str(r.issue)>>))>>))
Format(rootIssues, fieldIssues) ==
    Obj(<<Entry("_errors", Arr(rootIssues))>>
        \o [i \in DOMAIN fieldIssues |-> FormatIssue(fieldIssues[i])])

\* schema.safeParse(input): never throws; on success `data` holds the declared
\* fields only (unknown keys stripped, defaults applied), on failure `error`
\* holds the formatted per-field report.
safeParse(schema, input) ==
    IF schema.root = "object"
    THEN IF input.t # "object"
         THEN [success |-> FALSE, data |-> Undefined,
               error |-> Format(<<Str("Expected object, received " \o ParsedType(input))>>, <<>>)]
         ELSE LET parsed == [i \in DOMAIN schema.fields |-> ParseField(schema.fields[i], input)]
                  issues == SelectSeq(parsed, IsIssue)
                  kept == SelectSeq(parsed, IsPresent)
              IN IF issues = <<>>
                 THEN [success |-> TRUE,
                       data |-> Obj([i \in DOMAIN kept |-> Entry(kept[i].name, kept[i].value)]),
                       error |-> Undefined]
                 ELSE [success |-> FALSE, data |-> Undefined, error |-> Format(<<>>, issues)]
    ELSE IF input.t = schema.root
         THEN [success |-> TRUE, data |-> input, error |-> Undefined]
         ELSE [success |-> FALSE, data |-> Undefined,
               error |-> Format(<<Str("Expected " \o schema.root \o ", received "
                                        \o ParsedType(input))>>, <<>>)]

\* --------------------------------------------------- wire schema (schema.ts)
\* zodToJsonSchema(schema, { target: 'openApi3' }) for the schema kinds above.
FieldJsonSchema(f) ==
    IF f.hasDefault
    THEN Obj(<<Entry("type", Str(f.type)), Entry("default", f.default)>>)
    ELSE Obj(<<Entry("type", Str(f.type))>>)

\* Mutant (C28): only the optional marking keeps a field out of required.
IsNotOptionalField(f) == ~f.optional

IsRequiredField(f) == ~f.optional /\ ~f.hasDefault

zodToJsonSchema(schema) ==
    IF schema.root = "object"
    THEN LET req == SelectSeq(schema.fields, IsRequiredField)
             props == Obj([i \in DOMAIN schema.fields |->
                             Entry(schema.fields[i].name, FieldJsonSchema(schema.fields[i]))])
         IN Obj(<<Entry("type", Str("object")), Entry("properties", props)>>
                \o (IF req = <<>> THEN <<>>
                    ELSE <<Entry("required", Arr([i \in DOMAIN req |-> Str(req[i].name)]))>>)
                \o <<Entry("additionalProperties", [t |-> "boolean", b |-> FALSE])>>)
    ELSE Obj(<<Entry("type", Str(schema.root))>>)

\* Mutant (C27): the translated schema is never wrapped.
zodToMcpSchemaUnwrapped(schema) ==
    LET jsonSchema == zodToJsonSchema(schema) IN
    Obj(<<Entry("type", Str("object")),
          Entry("properties", Coalesce(Get(jsonSchema, "properties"), EmptyObject)),
          Entry("required", Get(jsonSchema, "required"))>>)

\* Mutant (C29): a schema can be translated once; after the first dispatch
\* the translation comes out empty.
zodToMcpSchemaConsuming(schema) ==
    LET jsonSchema == zodToJsonSchema(schema) IN
    IF handled > 0
    THEN Obj(<<Entry("type", Str("object")), Entry("properties", EmptyObject),
               Entry("required", Undefined)>>)
    ELSE IF jsonSchema.t # "object" \/ Get(jsonSchema, "type") # Str("object")
    THEN Obj(<<Entry("type", Str("object")),
               Entry("properties", Obj(<<Entry("value", jsonSchema)>>)),
               Entry("required", Arr(<<Str("value")>>))>>)
    ELSE Obj(<<Entry("type", Str("object")),
               Entry("properties", Coalesce(Get(jsonSchema, "properties"), EmptyObject)),
               Entry("required", Get(jsonSchema, "required"))>>)

\* zodToMcpSchema: a non-object root is wrapped as { value: <schema> }; `required`
\* is copied as it is, so it is a key holding undefined when nothing is required.
zodToMcpSchema(schema) ==
    LET jsonSchema == zodToJsonSchema(schema) IN
    IF jsonSchema.t # "object" \/ Get(jsonSchema, "type") # Str("object")
    THEN Obj(<<Entry("type", Str("object")),
               Entry("properties", Obj(<<Entry("value", jsonSchema)>>)),
               Entry("required", Arr(<<Str("value")>>))>>)
    ELSE Obj(<<Entry("type", Str("object")),
               Entry("properties", Coalesce(Get(jsonSchema, "properties"), EmptyObject)),
               Entry("required", Get(jsonSchema, "required"))>>)

toolToMcpDefinition(name, tool) ==
    Obj(<<Entry("name", Str(name)),
          Entry("description", Str(tool.description)),
          Entry("inputSchema", zodToMcpSchema(tool.parameters))>>)

\* ------------------------------------------------------ JSON.stringify
RECURSIVE Spaces(_)
Spaces(n) == IF n = 0 THEN "" ELSE " " \o Spaces(n - 1)

\* JSON.stringify(v, null, 2) of a value that is not undefined. Object entries
\* holding undefined are left out, array items holding undefined print as null.
\* The strings of this model hold no character that needs escaping.
RECURSIVE Stringify(_, _), StringifyEntries(_, _), StringifyItems(_, _)
Stringify(v, indent) ==
    CASE v.t = "null" -> "null"
      [] v.t = "number" -> IntText(v.n)
      [] v.t = "boolean" -> IF v.b THEN "true" ELSE "false"
      [] v.t = "string" -> "\"" \o v.s \o "\""
      [] v.t = "undefined" -> "null"
      [] v.t = "array" ->
           IF v.a = <<>> THEN "[]"
           ELSE "[\n" \o StringifyItems(v.a, indent + 2) \o "\n" \o Spaces(indent) \o "]"
      [] v.t = "object" ->
           LET shown == SelectSeq(v.e, LAMBDA en : en.v # Undefined) IN
           IF shown = <<>> THEN "{}"
           ELSE "{\n" \o StringifyEntries(shown, indent + 2) \o "\n" \o Spaces(indent) \o "}"
StringifyEntries(es, indent) ==
    LET one == Spaces(indent) \o "\"" \o es[1].k \o "\": " \o Stringify(es[1].v, indent) IN
    IF Len(es) = 1 THEN one ELSE one \o ",\n" \o StringifyEntries(Tail(es), indent)
StringifyItems(items, indent) ==
    LET one == Spaces(indent) \o Stringify(items[1], indent) IN
    IF Len(items) = 1 THEN one ELSE one \o ",\n" \o StringifyItems(Tail(items), indent)

JsonStringify(v) == IF v = Undefined THEN Undefined ELSE Str(Stringify(v, 0))

\* ------------------------------------------------------------ the registry
\* What a tool's execute does with the validated params, and how it settles:
\* it returns or throws synchronously, or returns a promise that later resolves
\* or rejects, or one that never settles.
Execute(tool, params) ==
    CASE tool.execute = "greet" ->
           [how |-> "returns", value |-> Str("Hello, " \o Get(params, "name").s \o "!")]
      [] tool.execute = "params" ->
           [how |-> "returns", value |-> params]
      [] tool.execute = "processed" ->
           [how |-> "resolves", value |-> Obj(<<Entry("processed", Get(params, "name"))>>)]
      [] tool.execute = "throw" ->
           [how |-> "throws", value |-> Err("Intentional error")]
      [] tool.execute = "reject" ->
           [how |-> "rejects", value |-> Str("upstream unavailable")]
      [] tool.execute = "null" -> [how |-> "returns", value |-> Null]
      [] tool.execute = "undefined" -> [how |-> "returns", value |-> Undefined]
      [] tool.execute = "number" -> [how |-> "returns", value |-> Num(8)]
      [] tool.execute = "boolean" -> [how |-> "returns", value |-> [t |-> "boolean", b |-> TRUE]]
      [] tool.execute = "array" -> [how |-> "resolves", value |-> Arr(<<Num(1), Num(2)>>)]
      [] tool.execute = "never" -> [how |-> "never", value |-> Undefined]

Tool(description, parameters, execute) ==
    [description |-> description, parameters |-> parameters, execute |-> execute]

\* The registry of the server tests, a tool with an optional and a defaulted
\* field, and a tool whose promise rejects.
TestTools ==
    << Entry("greet", Tool("Greet someone", ZObject(<<Field("name", "string")>>), "greet")),
       Entry("complex", Tool("Complex tool",
                             ZObject(<<OptionalField("name", "string"),
                                       DefaultField("withDefault", "number", Num(10))>>),
                             "params")),
       Entry("async_tool", Tool("Async tool", ZObject(<<Field("name", "string")>>), "processed")),
       Entry("error_tool", Tool("Tool that throws", ZObject(<<>>), "throw")),
       Entry("reject_tool", Tool("Tool that rejects", ZObject(<<Field("name", "string")>>),
                                 "reject")) >>

NoTools == <<>>

\* The registry of the server tests with a tool whose promise never settles.
StuckTools ==
    TestTools \o <<Entry("hang_tool", Tool("Tool that never settles", ZObject(<<>>), "never"))>>

\* Tools without parameters, one for each kind of value a tool can return
\* besides a string and an object.
ValueTools ==
    << Entry("null_tool", Tool("Null return", ZObject(<<>>), "null")),
       Entry("undefined_tool", Tool("Undefined return", ZObject(<<>>), "undefined")),
       Entry("number_tool", Tool("Number return", ZObject(<<>>), "number")),
       Entry("boolean_tool", Tool("Boolean return", ZObject(<<>>), "boolean")),
       Entry("array_tool", Tool("Array return", ZObject(<<>>), "array")) >>

\* Every object literal inherits these keys from Object.prototype.
ObjectPrototypeKeys ==
    {"constructor", "toString", "toLocaleString", "valueOf", "hasOwnProperty",
     "isPrototypeOf", "propertyIsEnumerable", "__proto__", "__defineGetter__",
     "__defineSetter__", "__lookupGetter__", "__lookupSetter__"}

\* tools[toolName]: an own entry, else a property inherited from Object.prototype
\* (a function or object that is truthy and is no tool), else undefined.
Lookup(registry, key) ==
    IF \E i \in DOMAIN registry : registry[i].k = key
    THEN [kind |-> "tool", def |-> registry[CHOOSE i \in DOMAIN registry : registry[i].k = key].v]
    ELSE IF key \in ObjectPrototypeKeys
         THEN [kind |-> "inherited", def |-> Undefined]
         ELSE [kind |-> "undefined", def |-> Undefined]

\* ------------------------------------------------------- serve() (server.ts)
\* Mutant (C10): the version token of an earlier protocol draft.
DRAFT_PROTOCOL_VERSION == "2024-10-07"

PROTOCOL_VERSION == "2024-11-05"

\* A destructuring default applies to a missing or undefined property only.
DefaultTo(v, d) == IF v = Undefined THEN d ELSE v

ServerInfoOf(config) ==
    Obj(<<Entry("name", DefaultTo(config.name, Str("toolcall-server"))),
          Entry("version", DefaultTo(config.version, Str("1.0.0")))>>)

capabilities == Obj(<<Entry("tools", EmptyObject)>>)

METHOD_NOT_FOUND == -32601
INVALID_PARAMS == -32602
INTERNAL_ERROR == -32603

\* Mutant (C1): the id is read as a number, so the string "1" comes back as 1.
ResponseIdAsNumber(id) == IF id.t = "string" THEN Num(1) ELSE id

\* The id a response carries: the `id` destructured from the request.
ResponseId(id) == id

Success(id, result) ==
    Obj(<<Entry("jsonrpc", Str("2.0")), Entry("id", ResponseId(id)), Entry("result", result)>>)

Failure(id, code, message) ==
    Obj(<<Entry("jsonrpc", Str("2.0")), Entry("id", ResponseId(id)),
          Entry("error", Obj(<<Entry("code", Num(code)), Entry("message", Str(message))>>))>>)

FailureWithData(id, code, message, data) ==
    Obj(<<Entry("jsonrpc", Str("2.0")), Entry("id", ResponseId(id)),
          Entry("error", Obj(<<Entry("code", Num(code)), Entry("message", Str(message)),
                               Entry("data", data)>>))>>)

\* Mutant (C7): String(error) for every thrown value, which prefixes the name.
ErrorDataWithName(error) == Str(ToStr(error))

\* error instanceof Error ? error.message : String(error)
ErrorData(error) == IF error.t = "Error" THEN Str(error.message) ELSE Str(ToStr(error))

\* Mutant (C2): the catch block also sets result: null.
InternalErrorWithResult(id, error) ==
    Obj(<<Entry("jsonrpc", Str("2.0")), Entry("id", id), Entry("result", Null),
          Entry("error", Obj(<<Entry("code", Num(INTERNAL_ERROR)),
                               Entry("message", Str("Internal error")),
                               Entry("data", ErrorData(error))>>))>>)

\* The catch block of handleRequest.
InternalError(id, error) ==
    FailureWithData(id, INTERNAL_ERROR, "Internal error", ErrorData(error))

\* Mutant (C6): a throwing parse() in place of safeParse(), caught as any error.
InvalidParametersThrown(id, parseResult) ==
    FailureWithData(id, INTERNAL_ERROR, "Internal error", Str("Validation failed"))

\* The response to arguments that safeParse refused.
InvalidParameters(id, parseResult) ==
    FailureWithData(id, INVALID_PARAMS, "Invalid parameters", parseResult.error)

\* typeof result === 'string' ? result : JSON.stringify(result, null, 2)
RenderText(result) == IF result.t = "string" THEN result ELSE JsonStringify(result)

ToolResult(id, result) ==
    Success(id, Obj(<<Entry("content",
                           Arr(<<Obj(<<Entry("type", Str("text")),
                                       Entry("text", RenderText(result))>>)>>))>>))

\* A dispatch: the request, where its handleRequest call stands ("returned" with
\* a response, "rejected" with the error thrown outward, "awaiting" execute), the
\* execute invocations it made and, while awaiting, the id it closed over and
\* how the awaited value settles.
Returned(request, response, execs) ==
    [req |-> request, phase |-> "returned", resp |-> response, thrown |-> Undefined,
     execs |-> execs, id |-> Undefined, pending |-> Undefined]
Rejected(request, error) ==
    [req |-> request, phase |-> "rejected", resp |-> Undefined, thrown |-> error,
     execs |-> <<>>, id |-> Undefined, pending |-> Undefined]
Awaiting(request, id, outcome, execs) ==
    [req |-> request, phase |-> "awaiting", resp |-> Undefined, thrown |-> Undefined,
     execs |-> execs, id |-> id, pending |-> outcome]
NoDispatch ==
    [req |-> Undefined, phase |-> "none", resp |-> Undefined, thrown |-> Undefined,
     execs |-> <<>>, id |-> Undefined, pending |-> Undefined]

\* Mutant (C4): execute is called with the raw arguments.
ExecuteRawArgument(parseResult, args) == Coalesce(args, EmptyObject)

\* The argument execute is called with: the validator's output.
ExecuteArgument(parseResult, args) == parseResult.data

\* tools[toolName]
LookupTool(toolName) == Lookup(tools, ToStr(toolName))

\* case 'tools/call', up to the await of execute.
ToolsCall(request, id, params) ==
    IF IsNullish(params)
    THEN Returned(request,
                  InternalError(id, Err("Cannot destructure property 'name' of 'params' as it is "
                                        \o ToStr(params) \o ".")), <<>>)
    ELSE LET toolName == Get(params, "name")
             args == Get(params, "arguments")
             toolDef == LookupTool(toolName)
         IN
         IF toolDef.kind = "undefined"
         THEN Returned(request,
                       Failure(id, INVALID_PARAMS, "Unknown tool: " \o ToStr(toolName)), <<>>)
         ELSE IF toolDef.kind = "inherited"
         THEN Returned(request,
                       InternalError(id, Err("Cannot read properties of undefined (reading 'safeParse')")),
                       <<>>)
         ELSE LET parseResult == safeParse(toolDef.def.parameters, Coalesce(args, EmptyObject)) IN
              IF ~parseResult.success
              THEN Returned(request, InvalidParameters(id, parseResult), <<>>)
              ELSE LET given == ExecuteArgument(parseResult, args)
                       outcome == Execute(toolDef.def, given)
                       call == [tool |-> ToStr(toolName), args |-> given]
                   IN
                   IF outcome.how = "throws"
                   THEN Returned(request, InternalError(id, outcome.value), <<call>>)
                   ELSE Awaiting(request, id, outcome, <<call>>)

\* Mutant (C11): the tools key is left out when the registry is empty.
ToolListUnlessEmpty ==
    IF tools = <<>>
    THEN Undefined
    ELSE Arr([i \in DOMAIN tools |-> toolToMcpDefinition(tools[i].k, tools[i].v)])

\* Object.entries(tools).map(([toolName, toolDef]) => toolToMcpDefinition(...))
ToolList == Arr([i \in DOMAIN tools |-> toolToMcpDefinition(tools[i].k, tools[i].v)])

\* Mutant (C8): the method name is matched without regard to case.
RouteIgnoringCase(method) ==
    IF method \in {Str("initialize"), Str("notifications/initialized"), Str("tools/list"),
                   Str("tools/call"), Str("ping")}
    THEN method.s
    ELSE IF method = Str("Ping") THEN "ping" ELSE "default"

\* Mutant (C35): until a first request has been handled only initialize is
\* routed; every other method falls to the default case.
RouteOnceInitialized(method) ==
    IF handled = 0 /\ method # Str("initialize")
    THEN "default"
    ELSE IF method \in {Str("initialize"), Str("notifications/initialized"), Str("tools/list"),
                        Str("tools/call"), Str("ping")}
    THEN method.s
    ELSE "default"

\* The switch on the method name: the five cases and the default.
Route(method) ==
    IF method \in {Str("initialize"), Str("notifications/initialized"), Str("tools/list"),
                   Str("tools/call"), Str("ping")}
    THEN method.s
    ELSE "default"

\* handleRequest(request), run to its first await or to its return. The
\* destructuring of the request stands before the try block.
handleRequest(request) ==
    IF IsNullish(request)
    THEN Rejected(request, Err("Cannot destructure property 'id' of 'request' as it is "
                               \o ToStr(request) \o "."))
    ELSE LET id == Get(request, "id")
             method == Get(request, "method")
             params == Get(request, "params")
             route == Route(method)
         IN
         CASE route = "initialize" ->
                Returned(request,
                         Success(id, Obj(<<Entry("protocolVersion", Str(PROTOCOL_VERSION)),
                                           Entry("capabilities", capabilities),
                                           Entry("serverInfo", serverInfo)>>)), <<>>)
           [] route = "notifications/initialized" ->
                Returned(request, Success(id, EmptyObject), <<>>)
           [] route = "tools/list" ->
                Returned(request,
                         Success(id, Obj(<<Entry("tools", ToolList)>>)), <<>>)
           [] route = "tools/call" -> ToolsCall(request, id, params)
           [] route = "ping" ->
                Returned(request, Success(id, EmptyObject), <<>>)
           [] OTHER ->
                Returned(request,
                         Failure(id, METHOD_NOT_FOUND, "Method not found: " \o ToStr(method)), <<>>)

\* Mutant (C32): the continuation goes on with the id and the awaited value of
\* the oldest suspended request, as if they were kept in one shared place.
AfterAwaitOfOldest(d) ==
    LET o == IF pending # <<>> THEN pending[1].d ELSE d IN
    IF o.pending.how = "rejects"
    THEN Returned(o.req, InternalError(o.id, o.pending.value), o.execs)
    ELSE Returned(o.req, ToolResult(o.id, o.pending.value), o.execs)

\* The rest of handleRequest once the awaited execute result settled: the
\* rendered result, or the catch block for a rejected promise.
AfterAwait(d) ==
    IF d.pending.how = "rejects"
    THEN Returned(d.req, InternalError(d.id, d.pending.value), d.execs)
    ELSE Returned(d.req, ToolResult(d.id, d.pending.value), d.execs)

\* ----------------------------------------------------------------- inputs
Ids == {Num(1), Str("1")}

Request(id, method, params) ==
    Obj(<<Entry("jsonrpc", Str("2.0")), Entry("id", id), Entry("method", Str(method))>>
        \o (IF params = Undefined THEN <<>> ELSE <<Entry("params", params)>>))

PlainMethods ==
    {"initialize", "notifications/initialized", "tools/list", "ping", "foo/bar", "Ping"}

PlainParams ==
    {Undefined, Null, Obj(<<Entry("protocolVersion", Str("1999-01-01"))>>)}

RegisteredNames == {TestTools[i].k : i \in DOMAIN TestTools}

UnregisteredNames == {"nonexistent", "toString", "__proto__"}

World == Obj(<<Entry("name", Str("World"))>>)

Arguments ==
    {Undefined, EmptyObject, World, Obj(<<Entry("name", Num(123))>>), Num(5)}

CallParamsOf(name, args) ==
    Obj(<<Entry("name", Str(name))>>
        \o (IF args = Undefined THEN <<>> ELSE <<Entry("arguments", args)>>))

ValueNames == {ValueTools[i].k : i \in DOMAIN ValueTools}

\* Every registered tool with every arguments value, names the registry does not
\* hold, and params without the { name, arguments } shape.
CallParams ==
    {Undefined, Null, EmptyObject, Obj(<<Entry("arguments", World)>>)}
      \cup {CallParamsOf(name, args) : name \in RegisteredNames, args \in Arguments}
      \cup {CallParamsOf(name, EmptyObject) : name \in UnregisteredNames}
      \cup {CallParamsOf(name, Undefined) : name \in ValueNames}

\* What JSON.parse can hand to the handler: request objects, an object without
\* id and method, a bare number, and null.
Payloads ==
    {Request(id, m, p) : id \in Ids, m \in PlainMethods, p \in PlainParams}
      \cup {Request(id, "tools/call", p) : id \in Ids, p \in CallParams}
      \cup {Obj(<<Entry("jsonrpc", Str("2.0"))>>), Num(5), Null}

Configs ==
    { [name |-> Undefined, version |-> Undefined, tools |-> TestTools],
      [name |-> Str("my-server"), version |-> Str("2.1.0"), tools |-> NoTools],
      [name |-> Str("value-server"), version |-> Undefined, tools |-> ValueTools] }

\* ------------------------------------------------- transport bookkeeping
NoRes == [headers |-> <<>>, status |-> 0, body |-> [kind |-> "none"]]

NoIo == [read |-> 0, nonBlank |-> 0, written |-> 0, closed |-> FALSE]

NoExchange ==
    [n |-> 0, input |-> Undefined, method |-> "", invoked |-> FALSE, out |-> <<>>, res |-> NoRes]

\* --------------------------------------------------- client bookkeeping
\* new McpClient(): the field initialisers of the class.
NewClient ==
    [process |-> Null, httpUrl |-> Null, requestId |-> 0, pendingRequests |-> {},
     tools |-> Arr(<<>>)]

NoSettlement == [how |-> "none", value |-> Undefined]

NoHandshake ==
    [state |-> "idle", step |-> 0, replies |-> <<>>, inbox |-> NoSettlement,
     error |-> Undefined]

NotListed == [t |-> "not listed"]

NoApi == [listed |-> NotListed, closes |-> 0, kills |-> 0]

\* connect() has not been called.
NoClientYet ==
    /\ client = NewClient
    /\ proc = "none"
    /\ handshake = NoHandshake
    /\ calls = <<>>
    /\ sent = <<>>
    /\ api = NoApi

\* ---------------------------------------------------------- the transitions
Init ==
    \E config \in Configs :
        /\ tools = config.tools
        /\ serverInfo = ServerInfoOf(config)
        /\ inflight = <<>>
        /\ last = NoDispatch
        /\ handled = 0
        /\ transport = "direct"
        /\ pending = <<>>
        /\ io = NoIo
        /\ wire = NoExchange
        /\ NoClientYet

RemoveAt(seq, i) == SubSeq(seq, 1, i - 1) \o SubSeq(seq, i + 1, Len(seq))

\* Mutant (C33): a timeout lets every suspended dispatch go on.
SettlesAnyway(d) == TRUE

\* `await toolDef.execute(...)` goes on once the awaited value settles; nothing
\* else wakes it.
CanSettle(d) == d.pending.how # "never"

\* A transport calls handler(request): the call runs to its return or to the
\* await of execute.
Dispatch(request) ==
    /\ handled < MaxRequests
    /\ handled' = handled + 1
    /\ \E d \in {handleRequest(request)} :
       IF d.phase = "awaiting"
       THEN /\ Len(inflight) < MaxInFlight
            /\ inflight' = Append(inflight, d)
            /\ UNCHANGED last
       ELSE /\ last' = d
            /\ UNCHANGED inflight
    /\ UNCHANGED <<tools, serverInfo, transport, pending, io, wire>>
    /\ UNCHANGED clientVars

\* The value awaited by the i-th suspended dispatch settles and its
\* handleRequest call runs to its return.
Settle(i) ==
    /\ i \in DOMAIN inflight
    /\ CanSettle(inflight[i])
    /\ last' = AfterAwait(inflight[i])
    /\ inflight' = RemoveAt(inflight, i)
    /\ UNCHANGED <<tools, serverInfo, handled, transport, pending, io, wire>>
    /\ UNCHANGED clientVars

Next ==
    \/ \E request \in Payloads : Dispatch(request)
    \/ \E i \in 1..MaxInFlight : Settle(i)

Spec == Init /\ [][Next]_vars

\* =========================================================== the transports
\* A line of stdin or an HTTP body is either the text of a JSON value, held as
\* the value JSON.parse returns for it, or characters that are no JSON text.
Raw(chars) == [kind |-> "raw", chars |-> chars, value |-> Undefined]
Json(value) == [kind |-> "json", chars |-> <<>>, value |-> value]

Whitespace == {" ", "\t", "\r"}

\* String.prototype.trim
RECURSIVE TrimStart(_), TrimEnd(_)
TrimStart(chars) ==
    IF chars # <<>> /\ Head(chars) \in Whitespace THEN TrimStart(Tail(chars)) ELSE chars
TrimEnd(chars) ==
    IF chars # <<>> /\ chars[Len(chars)] \in Whitespace
    THEN TrimEnd(SubSeq(chars, 1, Len(chars) - 1))
    ELSE chars
Trim(chars) == TrimEnd(TrimStart(chars))

\* Mutant (C17): the line is tested without being trimmed.
IsEmptyLine(line) == line.kind = "raw" /\ line.chars = <<>>

\* `!line.trim()`: the text of a JSON value always holds a non-blank character.
IsBlank(line) == line.kind = "raw" /\ Trim(line.chars) = <<>>

\* JSON.parse(text): the value, or a SyntaxError.
JsonParse(text) ==
    IF text.kind = "json"
    THEN [ok |-> TRUE, value |-> text.value, error |-> Undefined]
    ELSE [ok |-> FALSE, value |-> Undefined,
          error |-> IF Trim(text.chars) = <<>>
                    THEN Err("Unexpected end of JSON input")
                    ELSE Err("Unexpected token in JSON")]

\* What the reader of JSON.stringify(v) gets back: object entries holding
\* undefined are gone and array items holding undefined are null.
RECURSIVE OnWire(_)
OnWire(v) ==
    CASE v.t = "object" ->
           LET kept == SelectSeq(v.e, LAMBDA en : en.v # Undefined) IN
           Obj([i \in DOMAIN kept |-> Entry(kept[i].k, OnWire(kept[i].v))])
      [] v.t = "array" ->
           Arr([i \in DOMAIN v.a |-> IF v.a[i] = Undefined THEN Null ELSE OnWire(v.a[i])])
      [] OTHER -> v

PARSE_ERROR == -32700

\* Mutant (C14): the parse error carries a null id.
ParseErrorWithNullId(error) ==
    Obj(<<Entry("jsonrpc", Str("2.0")), Entry("id", Null),
          Entry("error", Obj(<<Entry("code", Num(PARSE_ERROR)),
                               Entry("message", Str("Parse error")),
                               Entry("data", ErrorData(error))>>))>>)

\* The errorResponse of the catch block of both transports.
ParseErrorResponse(error) ==
    Obj(<<Entry("jsonrpc", Str("2.0")), Entry("id", Num(0)),
          Entry("error", Obj(<<Entry("code", Num(PARSE_ERROR)),
                               Entry("message", Str("Parse error")),
                               Entry("data", ErrorData(error))>>))>>)

\* Mutant (C16): only the origin header is set.
CorsOriginOnly == <<Entry("Access-Control-Allow-Origin", "*")>>

\* The three res.setHeader calls every HTTP callback starts with.
CorsHeaders ==
    << Entry("Access-Control-Allow-Origin", "*"),
       Entry("Access-Control-Allow-Methods", "POST, OPTIONS"),
       Entry("Access-Control-Allow-Headers", "Content-Type") >>

\* res.setHeader(name, value): a header set again is replaced.
SetHeader(res, name, value) ==
    [res EXCEPT !.headers =
        SelectSeq(res.headers, LAMBDA h : h.k # name) \o <<Entry(name, value)>>]

\* res.writeHead(status) followed by res.end(body)
WriteHeadAndEnd(res, status, body) == [res EXCEPT !.status = status, !.body = body]

EmptyBody == [kind |-> "empty"]
TextBody(text) == [kind |-> "text", text |-> text]
JsonBody(value) == [kind |-> "json", value |-> value]

\* Mutant (C15): a JSON-RPC error is sent with status 500.
HttpReplyStatusByOutcome(res, response) ==
    WriteHeadAndEnd(SetHeader(res, "Content-Type", "application/json"),
                    IF HasKey(response, "error") THEN 500 ELSE 200,
                    JsonBody(OnWire(response)))

\* setHeader('Content-Type', ...), writeHead(200), end(JSON.stringify(response))
HttpReply(res, response) ==
    WriteHeadAndEnd(SetHeader(res, "Content-Type", "application/json"), 200,
                    JsonBody(OnWire(response)))

\* The requests the transports are driven with: an immediate result, an
\* immediate error, calls that await execute, and payloads the handler
\* rejects or answers without an id.
TransportPayloads ==
    { Request(Num(1), "ping", Undefined),
      Request(Str("1"), "foo/bar", Undefined),
      Request(Num(1), "tools/call", CallParamsOf("greet", World)),
      Request(Num(1), "tools/call", CallParamsOf("greet", EmptyObject)),
      Request(Num(1), "tools/call", CallParamsOf("error_tool", EmptyObject)),
      Request(Str("1"), "tools/call", CallParamsOf("reject_tool", EmptyObject)),
      Obj(<<Entry("jsonrpc", Str("2.0"))>>),
      Null }

Texts ==
    {Raw(<<>>), Raw(<<" ", "\t">>), Raw(<<"{", "x">>), Raw(<<" ", "n", "o", " ">>)}
      \cup {Json(payload) : payload \in TransportPayloads}

HttpMethods == {"OPTIONS", "GET", "DELETE", "POST"}

StdioEvent(n, line, invoked, out) ==
    [n |-> n, input |-> line, method |-> "", invoked |-> invoked, out |-> out, res |-> NoRes]

HttpEvent(n, method, body, invoked, res) ==
    [n |-> n, input |-> body, method |-> method, invoked |-> invoked, out |-> <<>>, res |-> res]

InitTransport ==
    /\ transport \in {"stdio", "http"}
    /\ tools = TestTools
    /\ serverInfo = ServerInfoOf([name |-> Undefined, version |-> Undefined, tools |-> TestTools])
    /\ inflight = <<>>
    /\ last = NoDispatch
    /\ handled = 0
    /\ pending = <<>>
    /\ io = NoIo
    /\ wire = NoExchange
    /\ NoClientYet

\* rl.on('line', ...) up to its return, its console.log or its await.
StdioLine(line) ==
    /\ transport = "stdio"
    /\ ~io.closed
    /\ io.read < MaxLines
    /\ LET n == io.read + 1 IN
       IF IsBlank(line)
       THEN /\ wire' = StdioEvent(n, line, FALSE, <<>>)
            /\ io' = [io EXCEPT !.read = n]
            /\ UNCHANGED <<last, handled, pending>>
       ELSE \E parsed \in {JsonParse(line)} :
            IF ~parsed.ok
            THEN /\ wire' = StdioEvent(n, line, FALSE, <<OnWire(ParseErrorResponse(parsed.error))>>)
                 /\ io' = [io EXCEPT !.read = n, !.nonBlank = @ + 1, !.written = @ + 1]
                 /\ UNCHANGED <<last, handled, pending>>
            ELSE \E d \in {handleRequest(parsed.value)} :
                 /\ handled' = handled + 1
                 /\ CASE d.phase = "returned" ->
                           /\ wire' = StdioEvent(n, line, TRUE, <<OnWire(d.resp)>>)
                           /\ io' = [io EXCEPT !.read = n, !.nonBlank = @ + 1, !.written = @ + 1]
                           /\ last' = d
                           /\ UNCHANGED pending
                      [] d.phase = "rejected" ->
                           /\ wire' = StdioEvent(n, line, TRUE,
                                                 <<OnWire(ParseErrorResponse(d.thrown))>>)
                           /\ io' = [io EXCEPT !.read = n, !.nonBlank = @ + 1, !.written = @ + 1]
                           /\ last' = d
                           /\ UNCHANGED pending
                      [] d.phase = "awaiting" ->
                           /\ Len(pending) < MaxPending
                           /\ pending' = Append(pending, [n |-> n, input |-> line, method |-> "",
                                                          d |-> d, res |-> NoRes])
                           /\ wire' = StdioEvent(n, line, TRUE, <<>>)
                           /\ io' = [io EXCEPT !.read = n, !.nonBlank = @ + 1]
                           /\ UNCHANGED last
    /\ UNCHANGED <<tools, serverInfo, inflight, transport>>
    /\ UNCHANGED clientVars

\* The handler promise of the i-th suspended line callback settles:
\* console.log(JSON.stringify(response)).
StdioSettle(i) ==
    /\ transport = "stdio"
    /\ ~io.closed
    /\ i \in DOMAIN pending
    /\ CanSettle(pending[i].d)
    /\ \E d \in {AfterAwait(pending[i].d)} :
       /\ last' = d
       /\ wire' = StdioEvent(pending[i].n, pending[i].input, TRUE, <<OnWire(d.resp)>>)
    /\ io' = [io EXCEPT !.written = @ + 1]
    /\ pending' = RemoveAt(pending, i)
    /\ UNCHANGED <<tools, serverInfo, inflight, handled, transport>>
    /\ UNCHANGED clientVars

\* rl.on('close', ...): process.exit(0) ends the suspended callbacks with the process.
StdioClose ==
    /\ transport = "stdio"
    /\ ~io.closed
    /\ io' = [io EXCEPT !.closed = TRUE]
    /\ pending' = <<>>
    /\ UNCHANGED <<tools, serverInfo, inflight, last, handled, transport, wire>>
    /\ UNCHANGED clientVars

\* The http.createServer callback up to its res.end or its await of the handler.
HttpRequest(method, body) ==
    /\ transport = "http"
    /\ io.read < MaxLines
    /\ LET n == io.read + 1
           res == [NoRes EXCEPT !.headers = CorsHeaders]
       IN
       CASE method = "OPTIONS" ->
              /\ wire' = HttpEvent(n, method, body, FALSE, WriteHeadAndEnd(res, 204, EmptyBody))
              /\ io' = [io EXCEPT !.read = n, !.written = @ + 1]
              /\ UNCHANGED <<last, handled, pending>>
         [] method \notin {"OPTIONS", "POST"} ->
              /\ wire' = HttpEvent(n, method, body, FALSE,
                                   WriteHeadAndEnd(res, 405, TextBody("Method not allowed")))
              /\ io' = [io EXCEPT !.read = n, !.written = @ + 1]
              /\ UNCHANGED <<last, handled, pending>>
         [] method = "POST" ->
              \E parsed \in {JsonParse(body)} :
              IF ~parsed.ok
              THEN /\ wire' = HttpEvent(n, method, body, FALSE,
                                        HttpReply(res, ParseErrorResponse(parsed.error)))
                   /\ io' = [io EXCEPT !.read = n, !.nonBlank = @ + 1, !.written = @ + 1]
                   /\ UNCHANGED <<last, handled, pending>>
              ELSE \E d \in {handleRequest(parsed.value)} :
                   /\ handled' = handled + 1
                   /\ CASE d.phase = "returned" ->
                             /\ wire' = HttpEvent(n, method, body, TRUE, HttpReply(res, d.resp))
                             /\ io' = [io EXCEPT !.read = n, !.nonBlank = @ + 1, !.written = @ + 1]
                             /\ last' = d
                             /\ UNCHANGED pending
                        [] d.phase = "rejected" ->
                             /\ wire' = HttpEvent(n, method, body, TRUE,
                                                  HttpReply(res, ParseErrorResponse(d.thrown)))
                             /\ io' = [io EXCEPT !.read = n, !.nonBlank = @ + 1, !.written = @ + 1]
                             /\ last' = d
                             /\ UNCHANGED pending
                        [] d.phase = "awaiting" ->
                             /\ Len(pending) < MaxPending
                             /\ pending' = Append(pending, [n |-> n, input |-> body,
                                                            method |-> method, d |-> d, res |-> res])
                             /\ wire' = HttpEvent(n, method, body, TRUE, res)
                             /\ io' = [io EXCEPT !.read = n, !.nonBlank = @ + 1]
                             /\ UNCHANGED last
    /\ UNCHANGED <<tools, serverInfo, inflight, transport>>
    /\ UNCHANGED clientVars

\* The handler promise of the i-th suspended HTTP callback settles.
HttpSettle(i) ==
    /\ transport = "http"
    /\ i \in DOMAIN pending
    /\ CanSettle(pending[i].d)
    /\ \E d \in {AfterAwait(pending[i].d)} :
       /\ last' = d
       /\ wire' = HttpEvent(pending[i].n, pending[i].method, pending[i].input, TRUE,
                            HttpReply(pending[i].res, d.resp))
    /\ io' = [io EXCEPT !.written = @ + 1]
    /\ pending' = RemoveAt(pending, i)
    /\ UNCHANGED <<tools, serverInfo, inflight, handled, transport>>
    /\ UNCHANGED clientVars

NextTransport ==
    \/ \E line \in Texts : StdioLine(line)
    \/ \E i \in 1..MaxPending : StdioSettle(i)
    \/ StdioClose
    \/ \E method \in HttpMethods, body \in Texts : HttpRequest(method, body)
    \/ \E i \in 1..MaxPending : HttpSettle(i)

SpecTransport == InitTransport /\ [][NextTransport]_vars

\* ------------------------------------ overlapping requests on a transport
\* Requests with an id each: one answered at once, two that await execute and
\* settle, and one whose tool never settles.
OverlapPayloads ==
    { Request(Num(3), "ping", Undefined),
      Request(Num(1), "tools/call", CallParamsOf("greet", World)),
      Request(Str("1"), "tools/call", CallParamsOf("reject_tool", World)),
      Request(Num(2), "tools/call", CallParamsOf("hang_tool", EmptyObject)) }

OverlapTexts == {Raw(<<>>), Raw(<<"{", "x">>)} \cup {Json(payload) : payload \in OverlapPayloads}

InitOverlap ==
    /\ transport \in {"stdio", "http"}
    /\ tools = StuckTools
    /\ serverInfo = ServerInfoOf([name |-> Undefined, version |-> Undefined, tools |-> StuckTools])
    /\ inflight = <<>>
    /\ last = NoDispatch
    /\ handled = 0
    /\ pending = <<>>
    /\ io = NoIo
    /\ wire = NoExchange
    /\ NoClientYet

NextOverlap ==
    \/ \E line \in OverlapTexts : StdioLine(line)
    \/ \E i \in 1..MaxPending : StdioSettle(i)
    \/ StdioClose
    \/ \E body \in OverlapTexts : HttpRequest("POST", body)
    \/ \E i \in 1..MaxPending : HttpSettle(i)

\* A promise that settles at all lets its continuation run: the event loop
\* takes up every callback that is ready. Nothing obliges stdin to deliver
\* another line or to close.
SpecOverlap ==
    /\ InitOverlap
    /\ [][NextOverlap]_vars
    /\ WF_vars(\E i \in 1..MaxPending : StdioSettle(i))
    /\ WF_vars(\E i \in 1..MaxPending : HttpSettle(i))

\* =============================================================== the client
\* A connect target: the prefix that startsWith() tests, and what follows it.
Targets ==
    { [prefix |-> "http://", rest |-> "localhost:3000"],
      [prefix |-> "", rest |-> "node ./my-server.js"] }

IsHttpTarget(target) == target.prefix \in {"http://", "https://"}

\* Mutant (C18): the handshake skips the notification.
HandshakeWithoutNotification == <<"initialize", "tools/list">>

\* The requests connect() awaits one after the other.
HandshakeSteps == <<"initialize", "notifications/initialized", "tools/list">>

HandshakeParams(method) ==
    IF method = "initialize"
    THEN Obj(<<Entry("protocolVersion", Str("2024-11-05")),
               Entry("capabilities", EmptyObject),
               Entry("clientInfo", Obj(<<Entry("name", Str("toolcall-client")),
                                         Entry("version", Str("1.0.0"))>>))>>)
    ELSE EmptyObject

\* Mutant (C20): the id is taken from the number of pending requests.
PendingCountId(c) == Cardinality(c.pendingRequests) + 1

\* `++this.requestId`
NextRequestId(c) == c.requestId + 1

\* Map.prototype.set / get / delete on pendingRequests; an entry names the
\* caller its resolve and reject belong to (0 is connect, i is the i-th call).
MapSet(map, id, caller) == {en \in map : en.id # id} \cup {[id |-> id, caller |-> caller]}
MapHas(map, key) == key.t = "number" /\ \E en \in map : en.id = key.n
\* Mutant (C21): the oldest pending entry is taken, whatever the id.
MapGetOldest(map, key) == CHOOSE en \in map : \A other \in map : en.id <= other.id

MapGet(map, key) == CHOOSE en \in map : en.id = key.n
\* Mutant (C30): the entry stays in the map after its caller was resolved.
MapKeep(map, key) == map

MapDelete(map, key) == {en \in map : en.id # key.n}

\* Mutant (C22): only the first pending entry is rejected on exit.
FirstPendingCaller(map) ==
    {en.caller : en \in {first \in map : \A other \in map : first.id <= other.id}}

\* `for (const pending of client.pendingRequests.values())`: the callers whose
\* reject the exit handler calls.
PendingCallers(map) == {en.caller : en \in map}

\* McpClient.request up to its await of fetch, its throw, or the executor of
\* the promise it returns.
SendRequest(c, method, params, caller) ==
    LET id == NextRequestId(c)
        counted == [c EXCEPT !.requestId = id]
    IN
    IF c.httpUrl # Null
    THEN [client |-> counted, how |-> "fetch", id |-> id, error |-> Undefined]
    ELSE IF c.process = Null
    THEN [client |-> counted, how |-> "throws", id |-> id, error |-> Err("Not connected")]
    ELSE [client |-> [counted EXCEPT !.pendingRequests = MapSet(@, id, caller)],
          how |-> "written", id |-> id, error |-> Undefined]

\* A request as the peer sees it, with the number of handshake responses
\* connect() had received when it was written.
SentEntry(id, method, caller) ==
    [id |-> id, method |-> method, caller |-> caller, after |-> Len(handshake.replies)]

Resolve(value) == [how |-> "resolve", value |-> value]
Reject(error) == [how |-> "reject", value |-> error]

\* `v.key` where v may be null or undefined.
Member(v, key) ==
    IF IsNullish(v)
    THEN [ok |-> FALSE, value |-> Err("Cannot read properties of " \o ToStr(v))]
    ELSE [ok |-> TRUE, value |-> IF v.t = "object" THEN Get(v, key) ELSE Undefined]

Truthy(v) ==
    CASE v.t \in {"undefined", "null"} -> FALSE
      [] v.t = "boolean" -> v.b
      [] v.t = "number" -> v.n # 0
      [] v.t = "string" -> v.s # ""
      [] OTHER -> TRUE

\* The texts of this model that are JSON texts, with the values they denote.
JsonTexts ==
    { [text |-> "42", value |-> Num(42)],
      [text |-> "null", value |-> Null],
      [text |-> "true", value |-> [t |-> "boolean", b |-> TRUE]],
      [text |-> "[]", value |-> Arr(<<>>)],
      [text |-> "\"quoted\"", value |-> Str("quoted")],
      [text |-> "{\n  \"result\": 8\n}", value |-> Obj(<<Entry("result", Num(8))>>)] }

\* More JSON texts and the values JSON.parse gives for them: pretty-printed
\* arrays and objects as a peer writes them with JSON.stringify(v, null, 2).
PrettyTexts ==
    { [text |-> "8", value |-> Num(8)],
      [text |-> "[\n  1,\n  2\n]", value |-> Arr(<<Num(1), Num(2)>>)],
      [text |-> "{\n  \"withDefault\": 10\n}",
       value |-> Obj(<<Entry("withDefault", Num(10))>>)],
      [text |-> "{\n  \"name\": \"World\",\n  \"withDefault\": 10\n}",
       value |-> Obj(<<Entry("name", Str("World")), Entry("withDefault", Num(10))>>)],
      [text |-> "{\n  \"processed\": \"World\"\n}",
       value |-> Obj(<<Entry("processed", Str("World"))>>)] }

\* JSON.parse(text): the value, or a SyntaxError for any other text, the empty
\* one included.
ParseText(text) ==
    IF text.t = "string" /\ \E en \in JsonTexts \cup PrettyTexts : en.text = text.s
    THEN [ok |-> TRUE,
          value |-> (CHOOSE en \in JsonTexts \cup PrettyTexts : en.text = text.s).value]
    ELSE [ok |-> FALSE, value |-> Undefined]

\* Mutant (C23): every error response is reported with one fixed message.
CallErrorGeneric(error) == Reject(Err("Tool call failed"))

\* `throw new Error(response.error.message)`: a missing message gives ''.
CallError(error) ==
    LET message == Member(error, "message").value IN
    Reject(Err(IF message = Undefined THEN "" ELSE ToStr(message)))

\* Mutant (C24): the text of the last content item is taken.
LastText(content) ==
    LET last_ == IF content.t = "array" /\ content.a # <<>>
                 THEN content.a[Len(content.a)]
                 ELSE Undefined
    IN IF IsNullish(last_) THEN Str("") ELSE Coalesce(Member(last_, "text").value, Str(""))

\* `result.content[0]?.text ?? ''`
FirstText(content) ==
    LET first == IF content.t = "array" /\ content.a # <<>> THEN content.a[1] ELSE Undefined
    IN IF IsNullish(first) THEN Str("") ELSE Coalesce(Member(first, "text").value, Str(""))

\* Mutant (C36): the text is handed back as it came.
DecodeTextUnparsed(text) == Resolve(text)

\* `try { return JSON.parse(text) } catch { return text }`
DecodeText(text) ==
    LET parsed == ParseText(text) IN
    Resolve(IF parsed.ok THEN parsed.value ELSE text)

\* McpClient.call after its await: the value it returns or the error it throws.
CallOutcome(response) ==
    LET error == Member(response, "error") IN
    IF ~error.ok THEN Reject(error.value)
    ELSE IF Truthy(error.value) THEN CallError(error.value)
    ELSE LET content == Member(Get(response, "result"), "content") IN
         IF ~content.ok THEN Reject(content.value)
         ELSE IF IsNullish(content.value)
         THEN Reject(Err("Cannot read properties of " \o ToStr(content.value)))
         ELSE DecodeText(FirstText(content.value))

\* What a peer may answer to the request with this id: the handshake requests
\* get an empty result, the third of them also a tool list, every later
\* request a tool result; any of them may get an error.
Shapes(id) ==
    CASE id \in {1, 2} -> {"empty", "error"}
      [] id = 3 -> {"tools", "empty", "error"}
      [] OTHER -> {"content", "error"}

PeerResponse(id, shape) ==
    Obj(<<Entry("jsonrpc", Str("2.0")), Entry("id", id)>>
        \o CASE shape = "empty" -> <<Entry("result", EmptyObject)>>
             [] shape = "tools" ->
                  <<Entry("result", Obj(<<Entry("tools",
                        Arr(<<toolToMcpDefinition("greet", TestTools[1].v)>>))>>))>>
             [] shape = "content" ->
                  <<Entry("result", Obj(<<Entry("content",
                        Arr(<<Obj(<<Entry("type", Str("text")),
                                    Entry("text", Str("Hello, World!"))>>)>>))>>))>>
             [] shape = "error" ->
                  <<Entry("error", Obj(<<Entry("code", Num(-32602)),
                                         Entry("message", Str("Unknown tool: greet"))>>))>>)

MaxId == 3 + MaxCalls

\* The lines a subordinate process may print: blank, not JSON, null, and
\* responses with any id, a string id among them.
ClientLines ==
    {Raw(<<>>), Raw(<<"{", "x">>), Json(Null), Json(PeerResponse(Str("1"), "empty"))}
      \cup UNION {{Json(PeerResponse(Num(id), shape)) : shape \in Shapes(id)} : id \in 1..MaxId}

\* How a fetch may end: a JSON response for the request, a JSON null, or a
\* failure of fetch or of response.json().
FetchOutcomes(id) ==
    {Resolve(PeerResponse(Num(id), shape)) : shape \in Shapes(id)}
      \cup {Resolve(Null), Reject(Err("fetch failed"))}

NewCall(id, state, outcome) ==
    [id |-> id, state |-> state, inbox |-> NoSettlement, outcome |-> outcome]

\* The promise the caller awaits settles; its continuation has not run yet.
Deliver(caller, settlement) ==
    IF caller = 0
    THEN /\ handshake' = [handshake EXCEPT !.state = "settled", !.inbox = settlement]
         /\ UNCHANGED calls
    ELSE /\ calls' = [calls EXCEPT ![caller].state = "settled", ![caller].inbox = settlement]
         /\ UNCHANGED handshake

Runnable == handshake.state = "settled" \/ \E i \in DOMAIN calls : calls[i].state = "settled"

InitClient ==
    /\ tools = NoTools
    /\ serverInfo = ServerInfoOf([name |-> Undefined, version |-> Undefined, tools |-> NoTools])
    /\ inflight = <<>>
    /\ last = NoDispatch
    /\ handled = 0
    /\ transport = "peer"
    /\ pending = <<>>
    /\ io = NoIo
    /\ wire = NoExchange
    /\ NoClientYet

\* McpClient.connect(target) up to its first await.
Connect(target) ==
    /\ handshake.state = "idle"
    /\ LET created == IF IsHttpTarget(target)
                      THEN [NewClient EXCEPT !.httpUrl = Str(target.prefix \o target.rest)]
                      ELSE [NewClient EXCEPT !.process = Str("ChildProcess")]
           r == SendRequest(created, HandshakeSteps[1], HandshakeParams(HandshakeSteps[1]), 0)
       IN /\ client' = r.client
          /\ proc' = IF IsHttpTarget(target) THEN "none" ELSE "running"
          /\ sent' = <<SentEntry(r.id, HandshakeSteps[1], 0)>>
          /\ handshake' = [handshake EXCEPT !.state = "awaiting", !.step = 1]
    /\ UNCHANGED calls
    /\ UNCHANGED api
    /\ UNCHANGED serverVars

\* connect() resumes after an await: it sends the next request, or caches the
\* tools and returns the client, or rejects.
HandshakeResume ==
    /\ handshake.state = "settled"
    /\ IF handshake.inbox.how = "reject"
       THEN /\ handshake' = [handshake EXCEPT !.state = "rejected", !.inbox = NoSettlement,
                                              !.error = handshake.inbox.value]
            /\ UNCHANGED <<client, sent>>
       ELSE LET response == handshake.inbox.value
                replies == Append(handshake.replies, response)
            IN
            IF handshake.step < Len(HandshakeSteps)
            THEN LET method == HandshakeSteps[handshake.step + 1]
                     r == SendRequest(client, method, HandshakeParams(method), 0)
                 IN /\ client' = r.client
                    /\ IF r.how = "throws"
                       THEN /\ handshake' = [handshake EXCEPT !.state = "rejected",
                                                !.replies = replies, !.inbox = NoSettlement,
                                                !.error = r.error]
                            /\ UNCHANGED sent
                       ELSE /\ handshake' = [handshake EXCEPT !.state = "awaiting",
                                                !.step = @ + 1, !.replies = replies,
                                                !.inbox = NoSettlement]
                            /\ sent' = Append(sent, [SentEntry(r.id, method, 0)
                                                        EXCEPT !.after = Len(replies)])
            ELSE LET result == Member(response, "result")
                     list == IF result.ok THEN Member(result.value, "tools") ELSE result
                 IN /\ IF list.ok
                       THEN /\ client' = [client EXCEPT !.tools = list.value]
                            /\ handshake' = [handshake EXCEPT !.state = "returned",
                                                !.replies = replies, !.inbox = NoSettlement]
                       ELSE /\ handshake' = [handshake EXCEPT !.state = "rejected",
                                                !.replies = replies, !.inbox = NoSettlement,
                                                !.error = list.value]
                            /\ UNCHANGED client
                    /\ UNCHANGED sent
    /\ UNCHANGED <<proc, calls>>
    /\ UNCHANGED api
    /\ UNCHANGED serverVars

\* rl.on('line', ...) of the client: the response resolves the pending entry
\* of its id, anything else is dropped.
ClientLine(line) ==
    /\ proc # "none"
    /\ LET parsed == JsonParse(line)
           id == IF parsed.ok THEN Member(parsed.value, "id") ELSE [ok |-> FALSE]
       IN IF ~IsBlank(line) /\ parsed.ok /\ id.ok /\ MapHas(client.pendingRequests, id.value)
          THEN /\ client' = [client EXCEPT !.pendingRequests = MapDelete(@, id.value)]
               /\ Deliver(MapGet(client.pendingRequests, id.value).caller, Resolve(parsed.value))
          ELSE UNCHANGED <<client, handshake, calls>>
    /\ UNCHANGED <<proc, sent>>
    /\ UNCHANGED api
    /\ UNCHANGED serverVars

\* process.on('exit', ...): every pending entry is rejected, the map cleared.
\* The event is taken from the event loop, so no continuation is waiting.
ProcessExit ==
    /\ proc \in {"running", "killed"}
    /\ ~Runnable
    /\ proc' = "exited"
    /\ LET waiting == PendingCallers(client.pendingRequests) IN
       /\ handshake' = IF 0 \in waiting
                       THEN [handshake EXCEPT !.state = "settled",
                                              !.inbox = Reject(Err("Process exited"))]
                       ELSE handshake
       /\ calls' = [i \in DOMAIN calls |->
                       IF i \in waiting
                       THEN [calls[i] EXCEPT !.state = "settled",
                                             !.inbox = Reject(Err("Process exited"))]
                       ELSE calls[i]]
    /\ client' = [client EXCEPT !.pendingRequests = {}]
    /\ UNCHANGED sent
    /\ UNCHANGED api
    /\ UNCHANGED serverVars

\* The fetch of a request and its response.json() settle.
FetchRespond(caller, settlement) ==
    /\ client.httpUrl # Null
    /\ IF caller = 0
       THEN handshake.state = "awaiting" /\ settlement \in FetchOutcomes(sent[Len(sent)].id)
       ELSE /\ caller \in DOMAIN calls
            /\ calls[caller].state = "awaiting"
            /\ settlement \in FetchOutcomes(calls[caller].id)
    /\ Deliver(caller, settlement)
    /\ UNCHANGED <<client, proc, sent>>
    /\ UNCHANGED api
    /\ UNCHANGED serverVars

\* client.call(toolName, args) up to its await.
Call(toolName) ==
    /\ handshake.state = "returned"
    /\ Len(calls) < MaxCalls
    /\ LET caller == Len(calls) + 1
           r == SendRequest(client, "tools/call", CallParamsOf(toolName, EmptyObject), caller)
       IN /\ client' = r.client
          /\ IF r.how = "throws"
             THEN /\ calls' = Append(calls, NewCall(r.id, "rejected", Reject(r.error)))
                  /\ UNCHANGED sent
             ELSE /\ calls' = Append(calls, NewCall(r.id, "awaiting", NoSettlement))
                  /\ sent' = Append(sent, SentEntry(r.id, "tools/call", caller))
    /\ UNCHANGED <<proc, handshake>>
    /\ UNCHANGED api
    /\ UNCHANGED serverVars

\* client.call resumes after its await and returns or throws.
CallResume(i) ==
    /\ i \in DOMAIN calls
    /\ calls[i].state = "settled"
    /\ LET outcome == IF calls[i].inbox.how = "reject"
                      THEN calls[i].inbox
                      ELSE CallOutcome(calls[i].inbox.value)
       IN calls' = [calls EXCEPT ![i].state = IF outcome.how = "reject" THEN "rejected"
                                              ELSE "returned",
                                 ![i].inbox = NoSettlement,
                                 ![i].outcome = outcome]
    /\ UNCHANGED <<client, proc, handshake, sent>>
    /\ UNCHANGED api
    /\ UNCHANGED serverVars

\* Mutant (C25): close() also drops the cached tools.
ClosedAndCleared(c) == [c EXCEPT !.process = Null, !.tools = Arr(<<>>)]

\* Mutant (C26): close() leaves the process field as it is.
ClosedKeepingProcess(c) == c

\* `this.process = null`
Closed(c) == [c EXCEPT !.process = Null]

\* client.close(): the process, if the field holds one, is sent the kill
\* signal; a process that has exited already takes no notice.
Close ==
    /\ handshake.state = "returned"
    /\ api.closes < MaxCloses
    /\ IF client.process # Null
       THEN /\ client' = Closed(client)
            /\ proc' = IF proc = "running" THEN "killed" ELSE proc
            /\ api' = [api EXCEPT !.closes = @ + 1, !.kills = @ + 1]
       ELSE /\ UNCHANGED <<client, proc>>
            /\ api' = [api EXCEPT !.closes = @ + 1]
    /\ UNCHANGED <<handshake, calls, sent>>
    /\ UNCHANGED serverVars

\* `return this.tools`
listTools(c) == c.tools

\* client.listTools()
ListTools ==
    /\ handshake.state = "returned"
    /\ api' = [api EXCEPT !.listed = listTools(client)]
    /\ UNCHANGED <<client, proc, handshake, calls, sent>>
    /\ UNCHANGED serverVars

NextClient ==
    \/ \E target \in Targets : Connect(target)
    \/ HandshakeResume
    \/ \E line \in ClientLines : ClientLine(line)
    \/ ProcessExit
    \/ \E caller \in 0..MaxCalls, settlement \in UNION {FetchOutcomes(id) : id \in 1..MaxId} :
          FetchRespond(caller, settlement)
    \/ Call("greet")
    \/ \E i \in 1..MaxCalls : CallResume(i)
    \/ Close
    \/ ListTools

SpecClient == InitClient /\ [][NextClient]_vars

\* A continuation whose promise has settled is run by the event loop. Nothing
\* obliges the peer to answer, the process to exit or the caller to go on
\* calling.
SpecClientFair ==
    /\ InitClient
    /\ [][NextClient]_vars
    /\ WF_vars(HandshakeResume)
    /\ WF_vars(\E i \in 1..MaxCalls : CallResume(i))

\* ------------------------------------------- call(): decoding the response
TextItem(text) == Obj(<<Entry("type", Str("text")), Entry("text", text)>>)

ResultResponse(id, result) ==
    Obj(<<Entry("jsonrpc", Str("2.0")), Entry("id", Num(id)), Entry("result", result)>>)

ErrorResponse(id, error) ==
    Obj(<<Entry("jsonrpc", Str("2.0")), Entry("id", Num(id)), Entry("error", error)>>)

ContentTexts == {"Hello, World!", ""} \cup {en.text : en \in JsonTexts}

\* Content lists: one text item for each text, none, an item without text, an
\* item whose text is null, and two items.
ContentLists ==
    {<<TextItem(Str(text))>> : text \in ContentTexts}
      \cup { <<>>,
             <<Obj(<<Entry("type", Str("text"))>>)>>,
             <<TextItem(Null)>>,
             <<TextItem(Str("42")), TextItem(Str("Hello, World!"))>>,
             <<TextItem(Str("Hello, World!")), TextItem(Str("42"))>> }

ErrorObjects ==
    { Obj(<<Entry("code", Num(-32602)), Entry("message", Str("Unknown tool: greet"))>>),
      Obj(<<Entry("code", Num(-32602)), Entry("message", Str("Invalid parameters")),
            Entry("data", Obj(<<Entry("_errors", Arr(<<>>))>>))>>),
      Obj(<<Entry("code", Num(-32603)), Entry("message", Str("Internal error")),
            Entry("data", Str("Intentional error"))>>),
      Obj(<<Entry("code", Num(-32000))>>) }

\* How the request of a call may settle: a response with a content list, with
\* an error, with both, with a result that has no content list, a JSON null,
\* or a rejection.
CallSettlements(id) ==
    {Resolve(ResultResponse(id, Obj(<<Entry("content", Arr(items))>>))) : items \in ContentLists}
      \cup {Resolve(ErrorResponse(id, error)) : error \in ErrorObjects}
      \cup { Resolve(Obj(<<Entry("jsonrpc", Str("2.0")), Entry("id", Num(id)),
                           Entry("result", Obj(<<Entry("content", Arr(<<TextItem(Str("42"))>>))>>)),
                           Entry("error", Obj(<<Entry("code", Num(-32603)),
                                                Entry("message", Str("Internal error"))>>))>>)),
             Resolve(ResultResponse(id, EmptyObject)),
             Resolve(Null),
             Reject(Err("Process exited")),
             Reject(Err("fetch failed")) }

\* A client that connect() returned, with every call made on it settled and
\* none of them resumed yet.
InitCall ==
    /\ tools = NoTools
    /\ serverInfo = ServerInfoOf([name |-> Undefined, version |-> Undefined, tools |-> NoTools])
    /\ inflight = <<>>
    /\ last = NoDispatch
    /\ handled = 0
    /\ transport = "peer"
    /\ pending = <<>>
    /\ io = NoIo
    /\ wire = NoExchange
    /\ proc = "none"
    /\ api = NoApi
    /\ \E n \in 1..MaxCalls :
          /\ client = [NewClient EXCEPT !.httpUrl = Str("http://localhost:3000"),
                                        !.requestId = 3 + n,
                                        !.tools = Get(Get(PeerResponse(Num(3), "tools"), "result"),
                                                      "tools")]
          /\ handshake = [NoHandshake EXCEPT
                              !.state = "returned", !.step = 3,
                              !.replies = <<PeerResponse(Num(1), "empty"),
                                            PeerResponse(Num(2), "empty"),
                                            PeerResponse(Num(3), "tools")>>]
          /\ sent = [k \in 1..(3 + n) |->
                        IF k <= 3
                        THEN [id |-> k, method |-> HandshakeSteps[k], caller |-> 0, after |-> k - 1]
                        ELSE [id |-> k, method |-> "tools/call", caller |-> k - 3, after |-> 3]]
          /\ calls \in [1..n -> UNION {{[id |-> id, state |-> "settled", inbox |-> settlement,
                                         outcome |-> NoSettlement] :
                                            settlement \in CallSettlements(id)} : id \in 4..(3 + n)}]
          /\ \A i \in 1..n : calls[i].id = 3 + i

NextCall == \E i \in 1..MaxCalls : CallResume(i)

SpecCall == InitCall /\ [][NextCall]_vars

\* ------------------------------- a client call served by the HTTP transport
\* The tools of the server tests and one for each kind of returned value.
RoundTripTools == TestTools \o ValueTools

RoundTripNames == {RoundTripTools[i].k : i \in DOMAIN RoundTripTools}

\* serve() on the HTTP transport and a client that connect() returned for it.
InitRoundTrip ==
    /\ transport = "http"
    /\ tools = RoundTripTools
    /\ serverInfo = ServerInfoOf([name |-> Undefined, version |-> Undefined,
                                  tools |-> RoundTripTools])
    /\ inflight = <<>>
    /\ last = NoDispatch
    /\ handled = 0
    /\ pending = <<>>
    /\ io = NoIo
    /\ wire = NoExchange
    /\ proc = "none"
    /\ api = NoApi
    /\ calls = <<>>
    /\ client = [NewClient EXCEPT !.httpUrl = Str("http://localhost:3000"),
                                  !.requestId = 3,
                                  !.tools = ToolList]
    /\ handshake = [NoHandshake EXCEPT !.state = "returned", !.step = 3]
    /\ sent = [k \in 1..3 |->
                  [id |-> k, method |-> HandshakeSteps[k], caller |-> 0, after |-> k - 1]]

\* No call is between its fetch and its return.
Quiet == \A i \in DOMAIN calls : calls[i].state \in {"returned", "rejected"}

\* client.call(toolName, args) up to its await: request() posts the request
\* with fetch; its body travels to the server.
CallTool(toolName, args) ==
    /\ handshake.state = "returned"
    /\ Quiet
    /\ Len(calls) < MaxCalls
    /\ io.read < MaxLines
    /\ LET caller == Len(calls) + 1
           r == SendRequest(client, "tools/call", CallParamsOf(toolName, args), caller)
           body == Request(Num(r.id), "tools/call", CallParamsOf(toolName, args))
       IN /\ r.how = "fetch"
          /\ client' = r.client
          /\ calls' = Append(calls, NewCall(r.id, "awaiting", NoSettlement))
          /\ sent' = Append(sent, SentEntry(r.id, "tools/call", caller))
          /\ wire' = HttpEvent(io.read + 1, "POST", Json(OnWire(body)), FALSE, NoRes)
    /\ UNCHANGED <<proc, handshake, api>>
    /\ UNCHANGED <<tools, serverInfo, inflight, last, handled, transport, pending, io>>

\* The request reaches the http.createServer callback.
Posted ==
    /\ wire.n = io.read + 1
    /\ HttpRequest("POST", wire.input)

\* fetch and response.json() of the awaiting call settle with the body the
\* server sent.
FetchServed(i) ==
    /\ i \in DOMAIN calls
    /\ calls[i].state = "awaiting"
    /\ wire.n = io.read
    /\ wire.res.status = 200
    /\ wire.res.body.kind = "json"
    /\ Deliver(i, Resolve(wire.res.body.value))
    /\ UNCHANGED <<client, proc, sent, api>>
    /\ UNCHANGED serverVars

NextRoundTrip ==
    \/ \E toolName \in RoundTripNames, args \in {EmptyObject, World} : CallTool(toolName, args)
    \/ Posted
    \/ \E i \in 1..MaxPending : HttpSettle(i)
    \/ \E i \in 1..MaxCalls : FetchServed(i)
    \/ \E i \in 1..MaxCalls : CallResume(i)

SpecRoundTrip == InitRoundTrip /\ [][NextRoundTrip]_vars

\* ------------------------------------------- schemas and their translation
FieldNames == {"a", "b", "c"}

FieldTypes == {"string", "number"}

DefaultOf(type) == IF type = "string" THEN Str("x") ELSE Num(10)

\* A field of each marking: plain, .optional(), .default(value).
FieldChoices ==
    {Field(name, type) : name \in FieldNames, type \in FieldTypes}
      \cup {OptionalField(name, type) : name \in FieldNames, type \in FieldTypes}
      \cup {DefaultField(name, type, DefaultOf(type)) : name \in FieldNames, type \in FieldTypes}

\* z.object with up to MaxFields fields of different names in any declaration
\* order, and the bare z.string(), z.number() and z.boolean().
Schemas ==
    {ZObject(fields) :
        fields \in {fs \in UNION {[1..n -> FieldChoices] : n \in 0..MaxFields} :
                       \A i, j \in DOMAIN fs : i # j => fs[i].name # fs[j].name}}
      \cup {ZPrimitive(type) : type \in {"string", "number", "boolean"}}

\* tools/list, and calls of the one tool with arguments of several shapes.
SchemaPayloads ==
    {Request(Num(1), "tools/list", Undefined)}
      \cup {Request(Num(2), "tools/call", CallParamsOf("subject", args)) :
                args \in {Undefined,
                          Obj(<<Entry("a", Str("x"))>>),
                          Obj(<<Entry("a", Str("x")), Entry("b", Num(1))>>),
                          Obj(<<Entry("value", Str("x"))>>),
                          Str("x")}}

\* serve() with one tool whose parameters are the schema.
InitSchema ==
    /\ \E schema \in Schemas :
          tools = <<Entry("subject", Tool("A tool under translation", schema, "processed"))>>
    /\ serverInfo = ServerInfoOf([name |-> Undefined, version |-> Undefined, tools |-> tools])
    /\ inflight = <<>>
    /\ last = NoDispatch
    /\ handled = 0
    /\ transport = "direct"
    /\ pending = <<>>
    /\ io = NoIo
    /\ wire = NoExchange
    /\ NoClientYet

NextSchema ==
    \/ \E request \in SchemaPayloads : Dispatch(request)
    \/ \E i \in 1..MaxInFlight : Settle(i)

SpecSchema == InitSchema /\ [][NextSchema]_vars

\* ------------------------------------------------------------- properties
\* Reading a dispatch: the method and params of its request, the tool entry its
\* params name, and the error of its response.
MethodOf(d) == Get(d.req, "method")
ParamsOf(d) == Get(d.req, "params")
ErrorOf(d) == Get(d.resp, "error")
IsToolsCall(d) == d.req.t = "object" /\ MethodOf(d) = Str("tools/call")
NamesOwnEntry(name) == name.t = "string" /\ \E i \in DOMAIN tools : tools[i].k = name.s
OwnEntry(name) == tools[CHOOSE i \in DOMAIN tools : tools[i].k = name.s].v
RawArguments(d) == Coalesce(Get(ParamsOf(d), "arguments"), EmptyObject)
AllDispatches == {last} \cup {inflight[i] : i \in DOMAIN inflight}
FiveMethods ==
    {Str("initialize"), Str("notifications/initialized"), Str("tools/list"),
     Str("tools/call"), Str("ping")}

\* C1: every response handleRequest returns carries the id of its request
\* unchanged (the number 1 stays a number, the string "1" a string) and the
\* jsonrpc tag "2.0", whatever the method and the outcome.
C1_ResponseIdIsRequestId ==
    last.phase = "returned" =>
        /\ Get(last.resp, "id") = Get(last.req, "id")
        /\ Get(last.resp, "jsonrpc") = Str("2.0")

\* C1 witness: an internal-error response to a request with the string id "1",
\* reached after the await of a rejecting tool.
C1_Witness ==
    /\ last.phase = "returned"
    /\ last.execs # <<>>
    /\ last.execs[1].tool = "reject_tool"
    /\ Get(last.req, "id") = Str("1")
    /\ Get(ErrorOf(last), "code") = Num(INTERNAL_ERROR)
    /\ Get(last.resp, "id") = Str("1")

\* C2: every response handleRequest returns has exactly one of the keys result
\* and error.
C2_ResultXorError ==
    last.phase = "returned" => (HasKey(last.resp, "result") # HasKey(last.resp, "error"))

\* C2 witness: an error response that carries a data payload and no result.
C2_Witness ==
    /\ last.phase = "returned"
    /\ HasKey(last.resp, "error")
    /\ HasKey(ErrorOf(last), "data")
    /\ ~HasKey(last.resp, "result")

\* C3 (as claimed): handleRequest never rejects towards the transport, for any
\* payload JSON.parse can produce, null included.
C3_NeverThrowsOutward == last.phase # "rejected"

\* C4: a dispatch invokes execute at most once, and only for a tools/call whose
\* name is an own entry of the registry and whose arguments passed safeParse;
\* the invoked tool is the named one and it receives the validator's output.
\* Hence no execute runs when the tool is unknown or validation fails.
C4_LookupValidateExecute ==
    \A d \in AllDispatches :
        /\ Len(d.execs) <= 1
        /\ d.execs # <<>> =>
             /\ IsToolsCall(d)
             /\ ~IsNullish(ParamsOf(d))
             /\ NamesOwnEntry(Get(ParamsOf(d), "name"))
             /\ LET name == Get(ParamsOf(d), "name")
                    parsed == safeParse(OwnEntry(name).parameters, RawArguments(d))
                IN /\ parsed.success
                   /\ d.execs[1].tool = name.s
                   /\ d.execs[1].args = parsed.data

\* C4 witness: execute was invoked with a defaulted field the caller did not
\* send, so what it received differs from the raw arguments.
C4_Witness ==
    \E d \in AllDispatches :
        /\ d.execs # <<>>
        /\ d.execs[1].args # RawArguments(d)
        /\ Get(d.execs[1].args, "withDefault") = Num(10)
        /\ ~HasKey(RawArguments(d), "withDefault")

\* C5 (as claimed): a tools/call naming any string that is no entry of the
\* registry is answered with -32602, 'Unknown tool: <name>' and no data.
C5_UnknownToolForEveryAbsentName ==
    ( /\ last.phase = "returned"
      /\ IsToolsCall(last)
      /\ ~IsNullish(ParamsOf(last))
      /\ Get(ParamsOf(last), "name").t = "string"
      /\ ~NamesOwnEntry(Get(ParamsOf(last), "name")) )
    => ErrorOf(last) = Obj(<<Entry("code", Num(INVALID_PARAMS)),
                             Entry("message",
                                   Str("Unknown tool: " \o Get(ParamsOf(last), "name").s))>>)

\* C6: whenever the arguments of a tools/call for a registered tool fail
\* safeParse, the error has code -32602, the message 'Invalid parameters' and a
\* data payload holding the validator's report, whichever field failed.
C6_InvalidParameters ==
    ( /\ last.phase = "returned"
      /\ IsToolsCall(last)
      /\ ~IsNullish(ParamsOf(last))
      /\ NamesOwnEntry(Get(ParamsOf(last), "name"))
      /\ ~safeParse(OwnEntry(Get(ParamsOf(last), "name")).parameters,
                    RawArguments(last)).success )
    => /\ ~HasKey(last.resp, "result")
       /\ Get(ErrorOf(last), "code") = Num(INVALID_PARAMS)
       /\ Get(ErrorOf(last), "message") = Str("Invalid parameters")
       /\ HasKey(ErrorOf(last), "data")
       /\ HasKey(Get(ErrorOf(last), "data"), "_errors")
       /\ Get(ErrorOf(last), "data")
            = safeParse(OwnEntry(Get(ParamsOf(last), "name")).parameters,
                        RawArguments(last)).error

\* C6 witness: a missing required field, reported under its name.
C6_Witness ==
    /\ last.phase = "returned"
    /\ IsToolsCall(last)
    /\ Get(ErrorOf(last), "message") = Str("Invalid parameters")
    /\ Get(Get(Get(ErrorOf(last), "data"), "name"), "_errors") = Arr(<<Str("Required")>>)

\* The message text of what a failing execute threw or rejected with.
MessageText(thrown) == IF thrown.t = "Error" THEN thrown.message ELSE thrown.s

\* C7: when the execute a dispatch invoked throws or its promise rejects, the
\* response is the error -32603 'Internal error' whose data is the message text
\* of what was thrown, under the request's id.
C7_ExecuteFailureIsInternalError ==
    ( /\ last.phase = "returned"
      /\ last.execs # <<>>
      /\ Execute(OwnEntry(Str(last.execs[1].tool)), last.execs[1].args).how
           \in {"throws", "rejects"} )
    => /\ ~HasKey(last.resp, "result")
       /\ ErrorOf(last)
            = Obj(<<Entry("code", Num(INTERNAL_ERROR)),
                    Entry("message", Str("Internal error")),
                    Entry("data",
                          Str(MessageText(Execute(OwnEntry(Str(last.execs[1].tool)),
                                                  last.execs[1].args).value)))>>)
       /\ Get(last.resp, "id") = Get(last.req, "id")

\* C7 witness: the synchronous throw of error_tool, answered with its message.
C7_Witness ==
    /\ last.phase = "returned"
    /\ last.execs # <<>>
    /\ last.execs[1].tool = "error_tool"
    /\ Get(ErrorOf(last), "data") = Str("Intentional error")

\* C8: a request whose method is none of the five method names is answered with
\* -32601 and 'Method not found: <method>', and a request with one of the five
\* is never answered with -32601.
C8_ExactRouting ==
    (last.phase = "returned") =>
        IF MethodOf(last) \in FiveMethods
        THEN Get(ErrorOf(last), "code") # Num(METHOD_NOT_FOUND)
        ELSE ErrorOf(last)
               = Obj(<<Entry("code", Num(METHOD_NOT_FOUND)),
                       Entry("message", Str("Method not found: " \o ToStr(MethodOf(last))))>>)

\* C8 witness: 'Ping', which differs from 'ping' by case only, is not found.
C8_Witness ==
    /\ last.phase = "returned"
    /\ MethodOf(last) = Str("Ping")
    /\ Get(ErrorOf(last), "message") = Str("Method not found: Ping")

\* C9 (as claimed): a tools/call whose params are absent, null or lack a name is
\* answered with the error code -32602.
C9_MalformedParamsAreInvalidParams ==
    ( /\ last.phase = "returned"
      /\ IsToolsCall(last)
      /\ (IsNullish(ParamsOf(last)) \/ ~HasKey(ParamsOf(last), "name")) )
    => Get(ErrorOf(last), "code") = Num(INVALID_PARAMS)

\* The config serve() was started with.
Configured == CHOOSE config \in Configs : config.tools = tools

\* C10: initialize always returns the result { protocolVersion: '2024-11-05',
\* capabilities: { tools: {} }, serverInfo: configured name and version (or
\* their defaults) } whatever the client declares, and
\* notifications/initialized and ping always return the result {}.
C10_HandshakeAndPingNeverFail ==
    (last.phase = "returned" /\ last.req.t = "object") =>
        /\ MethodOf(last) = Str("initialize") =>
             last.resp
               = Obj(<<Entry("jsonrpc", Str("2.0")), Entry("id", Get(last.req, "id")),
                       Entry("result",
                             Obj(<<Entry("protocolVersion", Str("2024-11-05")),
                                   Entry("capabilities", Obj(<<Entry("tools", EmptyObject)>>)),
                                   Entry("serverInfo",
                                         Obj(<<Entry("name",
                                                     IF Configured.name = Undefined
                                                     THEN Str("toolcall-server")
                                                     ELSE Configured.name),
                                               Entry("version",
                                                     IF Configured.version = Undefined
                                                     THEN Str("1.0.0")
                                                     ELSE Configured.version)>>))>>))>>)
        /\ MethodOf(last) \in {Str("notifications/initialized"), Str("ping")} =>
             last.resp
               = Obj(<<Entry("jsonrpc", Str("2.0")), Entry("id", Get(last.req, "id")),
                       Entry("result", EmptyObject)>>)

\* C10 witness: initialize succeeds for a client that declares another protocol
\* version, as the second request the server handles.
C10_Witness ==
    /\ last.phase = "returned"
    /\ handled = 2
    /\ MethodOf(last) = Str("initialize")
    /\ Get(ParamsOf(last), "protocolVersion") = Str("1999-01-01")
    /\ Get(Get(last.resp, "result"), "protocolVersion") = Str("2024-11-05")

\* C11: tools/list always returns a result whose tools key holds an array with
\* one definition per registry entry, in registry order, each with that entry's
\* name and description and an inputSchema; for the empty registry the array is
\* present and empty.
C11_ToolsListMirrorsRegistry ==
    (last.phase = "returned" /\ MethodOf(last) = Str("tools/list")) =>
        /\ ~HasKey(last.resp, "error")
        /\ HasKey(Get(last.resp, "result"), "tools")
        /\ LET list == Get(Get(last.resp, "result"), "tools") IN
           /\ list.t = "array"
           /\ Len(list.a) = Len(tools)
           /\ \A i \in DOMAIN tools :
                /\ Get(list.a[i], "name") = Str(tools[i].k)
                /\ Get(list.a[i], "description") = Str(tools[i].v.description)
                /\ Get(Get(list.a[i], "inputSchema"), "type") = Str("object")

\* C11 witness: the five tools of the test registry listed in their order.
C11_Witness ==
    /\ last.phase = "returned"
    /\ MethodOf(last) = Str("tools/list")
    /\ Len(Get(Get(last.resp, "result"), "tools").a) = 5
    /\ Get(Get(Get(last.resp, "result"), "tools").a[2], "name") = Str("complex")

\* What the tool a dispatch invoked returned or resolved with.
ReturnedValue(d) == Execute(OwnEntry(Str(d.execs[1].tool)), d.execs[1].args).value

\* C12 (as claimed): every successful tools/call result is { content: [item] }
\* with one item of type 'text' whose text is a string: the returned string
\* itself, or the pretty-printed JSON text of any other returned value,
\* undefined included.
C12_TextIsAlwaysAString ==
    ( /\ last.phase = "returned"
      /\ IsToolsCall(last)
      /\ HasKey(last.resp, "result") )
    => LET content == Get(Get(last.resp, "result"), "content") IN
       /\ content.t = "array"
       /\ Len(content.a) = 1
       /\ Get(content.a[1], "type") = Str("text")
       /\ Get(content.a[1], "text").t = "string"
       /\ ReturnedValue(last).t = "string" => Get(content.a[1], "text") = ReturnedValue(last)

\* The request of a dispatch with arguments: {} in place of a missing arguments key.
WithEmptyArguments(d) ==
    Request(Get(d.req, "id"), "tools/call",
            CallParamsOf(Get(ParamsOf(d), "name").s, EmptyObject))

\* The response handleRequest gives to a request once its execute settled.
FinalResponse(request) ==
    LET d == handleRequest(request) IN
    IF d.phase = "awaiting" THEN AfterAwait(d).resp ELSE d.resp

\* C13: a tools/call that names a registered tool and has no arguments key is
\* answered as the same call with arguments: {} is: the schema is validated
\* against {}, so a tool without required fields is executed with its defaults
\* and a tool with a required field gets 'Invalid parameters'.
C13_MissingArgumentsAreEmptyObject ==
    ( /\ last.phase = "returned"
      /\ IsToolsCall(last)
      /\ ~IsNullish(ParamsOf(last))
      /\ NamesOwnEntry(Get(ParamsOf(last), "name"))
      /\ ~HasKey(ParamsOf(last), "arguments") )
    => /\ last.resp = FinalResponse(WithEmptyArguments(last))
       /\ last.execs = handleRequest(WithEmptyArguments(last)).execs
       /\ LET parsed == safeParse(OwnEntry(Get(ParamsOf(last), "name")).parameters, EmptyObject)
          IN IF parsed.success
             THEN last.execs # <<>> /\ last.execs[1].args = parsed.data
             ELSE Get(ErrorOf(last), "message") = Str("Invalid parameters")

\* C13 witness: `complex` called without arguments ran with its default filled in.
C13_Witness ==
    /\ last.phase = "returned"
    /\ IsToolsCall(last)
    /\ ~HasKey(ParamsOf(last), "arguments")
    /\ last.execs # <<>>
    /\ last.execs[1].args = Obj(<<Entry("withDefault", Num(10))>>)
    /\ HasKey(last.resp, "result")

\* The input of a transport step is no JSON text.
Unparseable(w) == w.input.kind = "raw"

\* Only whitespace characters, or none.
OnlyWhitespace(w) ==
    /\ w.input.kind = "raw"
    /\ \A i \in DOMAIN w.input.chars : w.input.chars[i] \in {" ", "\t", "\r"}

\* A response { jsonrpc: '2.0', id: 0, error: { code: -32700, message: 'Parse error', data } }.
IsParseError(response) ==
    /\ response.t = "object"
    /\ Get(response, "jsonrpc") = Str("2.0")
    /\ Get(response, "id") = Num(0)
    /\ ~HasKey(response, "result")
    /\ Get(Get(response, "error"), "code") = Num(-32700)
    /\ Get(Get(response, "error"), "message") = Str("Parse error")
    /\ Get(Get(response, "error"), "data").t = "string"

HeaderOf(res, name) ==
    IF \E i \in DOMAIN res.headers : res.headers[i].k = name
    THEN (CHOOSE h \in {res.headers[i] : i \in DOMAIN res.headers} : h.k = name).v
    ELSE "(not set)"

\* C14: when a transport reads a payload that JSON.parse rejects (a non-blank
\* line of stdin, the body of a POST), the step does not call the handler and
\* writes exactly one response, the Parse error with code -32700, message
\* 'Parse error' and id 0; over HTTP it is sent with status 200.
C14_UnparseableGetsOneParseError ==
    [][ ( /\ io'.read # io.read
          /\ Unparseable(wire')
          /\ IF transport = "stdio" THEN ~OnlyWhitespace(wire') ELSE wire'.method = "POST" )
        => /\ handled' = handled
           /\ ~wire'.invoked
           /\ pending' = pending
           /\ io'.written = io.written + 1
           /\ IF transport = "stdio"
              THEN Len(wire'.out) = 1 /\ IsParseError(wire'.out[1])
              ELSE /\ wire'.res.status = 200
                   /\ wire'.res.body.kind = "json"
                   /\ IsParseError(wire'.res.body.value) ]_vars

\* C14 witness: after a parsed request reached the handler, a POST whose body
\* is no JSON text was answered 200 with the Parse error.
C14_Witness ==
    /\ transport = "http"
    /\ handled = 1
    /\ wire.n = 2
    /\ wire.method = "POST"
    /\ wire.input = Raw(<<"{", "x">>)
    /\ wire.res.status = 200
    /\ Get(wire.res.body.value, "id") = Num(0)

\* C15: over HTTP an OPTIONS request is answered 204 with an empty body, any
\* other request that is not a POST 405, and a POST, once answered, 200 with
\* a JSON body and Content-Type application/json, result and error alike; the
\* handler is called only for a POST whose body parsed.
C15_HttpStatusRouting ==
    (transport = "http" /\ wire.n > 0) =>
        /\ wire.method = "OPTIONS" =>
              wire.res.status = 204 /\ wire.res.body = [kind |-> "empty"]
        /\ wire.method \notin {"OPTIONS", "POST"} => wire.res.status = 405
        /\ wire.method = "POST" =>
              \/ /\ wire.res.status = 0
                 /\ \E i \in DOMAIN pending : pending[i].n = wire.n
              \/ /\ wire.res.status = 200
                 /\ wire.res.body.kind = "json"
                 /\ wire.res.body.value.t = "object"
                 /\ HasKey(wire.res.body.value, "result") # HasKey(wire.res.body.value, "error")
                 /\ HeaderOf(wire.res, "Content-Type") = "application/json"
        /\ wire.invoked => wire.method = "POST" /\ wire.input.kind = "json"
        /\ handled <= io.nonBlank

\* C15 witness: a POST whose tool threw was answered 200 with the JSON-RPC error.
C15_Witness ==
    /\ transport = "http"
    /\ wire.method = "POST"
    /\ wire.invoked
    /\ wire.res.status = 200
    /\ Get(Get(wire.res.body.value, "error"), "code") = Num(-32603)

\* C16: every response the HTTP transport sends, and every response it is
\* still preparing, carries Access-Control-Allow-Origin '*',
\* Access-Control-Allow-Methods 'POST, OPTIONS' and
\* Access-Control-Allow-Headers 'Content-Type'.
C16_CorsOnEveryResponse ==
    (transport = "http" /\ wire.n > 0) =>
        \A res \in {wire.res} \cup {pending[i].res : i \in DOMAIN pending} :
            /\ HeaderOf(res, "Access-Control-Allow-Origin") = "*"
            /\ HeaderOf(res, "Access-Control-Allow-Methods") = "POST, OPTIONS"
            /\ HeaderOf(res, "Access-Control-Allow-Headers") = "Content-Type"

\* C16 witness: a 405 rejection carrying the headers.
C16_Witness ==
    /\ transport = "http"
    /\ wire.method = "DELETE"
    /\ wire.res.status = 405
    /\ HeaderOf(wire.res, "Access-Control-Allow-Methods") = "POST, OPTIONS"

\* C17: over stdio an empty or whitespace-only line writes nothing and does not
\* call the handler; any other line is parsed once and writes at most one line
\* (the Parse error when the handler is not called), so the lines written,
\* even with those still owed, never exceed the non-blank lines read.
C17_BlankLinesAreSkipped ==
    [][ ( /\ transport = "stdio"
          /\ io'.read # io.read )
        => /\ io'.read = io.read + 1
           /\ IF OnlyWhitespace(wire')
              THEN /\ wire'.out = <<>>
                   /\ ~wire'.invoked
                   /\ handled' = handled
                   /\ io'.written = io.written
                   /\ io'.nonBlank = io.nonBlank
                   /\ pending' = pending
              ELSE /\ io'.nonBlank = io.nonBlank + 1
                   /\ Len(wire'.out) <= 1
                   /\ wire'.invoked = (handled' = handled + 1)
                   /\ ~wire'.invoked => (Len(wire'.out) = 1 /\ IsParseError(wire'.out[1]))
           /\ io'.written + Len(pending') <= io'.nonBlank ]_vars

\* C17 witness: a whitespace-only line read after a line that was answered.
C17_Witness ==
    /\ transport = "stdio"
    /\ wire.n = 2
    /\ wire.input = Raw(<<" ", "\t">>)
    /\ wire.out = <<>>
    /\ io.written = 1
    /\ io.nonBlank = 1

\* The requests connect() wrote, in the order written.
SentByConnect == SelectSeq(sent, LAMBDA q : q.caller = 0)

\* C18: connect writes initialize, notifications/initialized and tools/list,
\* in this order and with the ids 1, 2 and 3, the k-th only when it holds the
\* responses to the k-1 before it; when it returns the client it has written
\* exactly these three and has stored the tools of the third response, and
\* nothing is called on a client before connect returned it.
C18_HandshakeOrder ==
    /\ \A k \in DOMAIN SentByConnect :
          /\ k <= 3
          /\ sent[k] = SentByConnect[k]
          /\ sent[k].method = <<"initialize", "notifications/initialized", "tools/list">>[k]
          /\ sent[k].id = k
          /\ sent[k].after = k - 1
    /\ handshake.state = "returned" =>
          /\ Len(SentByConnect) = 3
          /\ Len(handshake.replies) = 3
          /\ client.tools = Get(Get(handshake.replies[3], "result"), "tools")
    /\ handshake.state # "returned" =>
          /\ calls = <<>>
          /\ sent = SentByConnect
          /\ client.tools = Arr(<<>>)

\* C18 witness: a stdio connect returned with the advertised tool cached.
C18_Witness ==
    /\ handshake.state = "returned"
    /\ proc = "running"
    /\ Len(sent) = 3
    /\ client.tools.t = "array"
    /\ Len(client.tools.a) = 1
    /\ Get(client.tools.a[1], "name") = Str("greet")

\* C19 (as claimed): once connect has received an error-shaped response to its
\* k-th handshake request it has rejected and has written no request after the
\* k-th, and it never waits on a process that has exited.
C19_HandshakeIsTerminalForFailure ==
    /\ \A k \in DOMAIN handshake.replies :
          HasKey(handshake.replies[k], "error") =>
              /\ handshake.state = "rejected"
              /\ Len(SentByConnect) = k
    /\ proc = "exited" => handshake.state # "awaiting"

\* C20: the ids of the requests a client has written are strictly increasing
\* in the order written and start at 1, and the ids given to its calls,
\* concurrent ones included, differ from each other and from the handshake ids.
C20_RequestIdsIncrease ==
    /\ sent # <<>> => sent[1].id = 1
    /\ \A i, j \in DOMAIN sent : i < j => sent[i].id < sent[j].id
    /\ \A i, j \in DOMAIN calls : i # j => calls[i].id # calls[j].id
    /\ \A i \in DOMAIN calls : \A k \in DOMAIN SentByConnect : calls[i].id # sent[k].id
    /\ \A en \in client.pendingRequests : en.id <= client.requestId

\* C20 witness: two calls in flight at once on a stdio client, with ids 4 and 5.
C20_Witness ==
    /\ Len(calls) = 2
    /\ calls[1].state = "awaiting"
    /\ calls[2].state = "awaiting"
    /\ Cardinality(client.pendingRequests) = 2
    /\ sent[4].id = 4
    /\ sent[5].id = 5

\* The entry of pendingRequests that belongs to the i-th call.
EntryOfCall(i) == [id |-> calls[i].id, caller |-> i]

\* C21: on a stdio client a step that resolves a call resolves it with a
\* response whose id is the id the call's request was written with, takes its
\* entry, and only its entry, out of the pending map and settles no other
\* caller; the same holds for the handshake requests. A response whose id has
\* no entry therefore resolves nobody.
C21_ResponsesResolveTheirOwnCaller ==
    [][ proc # "none" =>
        /\ \A i \in DOMAIN calls :
              ( /\ calls[i].state # "settled"
                /\ calls'[i].state = "settled"
                /\ calls'[i].inbox.how = "resolve" )
              => /\ Get(calls'[i].inbox.value, "id") = Num(calls[i].id)
                 /\ EntryOfCall(i) \in client.pendingRequests
                 /\ client'.pendingRequests = client.pendingRequests \ {EntryOfCall(i)}
                 /\ \A j \in DOMAIN calls : j # i => calls'[j] = calls[j]
                 /\ handshake' = handshake
        /\ ( /\ handshake.state # "settled"
             /\ handshake'.state = "settled"
             /\ handshake'.inbox.how = "resolve" )
           => /\ Get(handshake'.inbox.value, "id") = Num(sent[Len(sent)].id)
              /\ client'.pendingRequests = {}
              /\ calls' = calls ]_vars

\* C21 witness: with two calls in flight the second was answered first.
C21_Witness ==
    /\ proc = "running"
    /\ Len(calls) = 2
    /\ calls[1].state = "awaiting"
    /\ calls[2].state = "settled"
    /\ calls[2].inbox.how = "resolve"
    /\ Get(calls[2].inbox.value, "id") = Num(5)
    /\ client.pendingRequests = {[id |-> 4, caller |-> 1]}

\* C22: the step in which the subordinate process exits empties the pending
\* map and rejects every caller that had an entry in it with the error
\* 'Process exited'; up to that step every waiting caller of a stdio client
\* has an entry, so none of them is left waiting.
C22_ExitRejectsEveryPendingRequest ==
    [][ (proc \in {"running", "killed"} /\ proc' = "exited") =>
        /\ client'.pendingRequests = {}
        /\ \A i \in DOMAIN calls :
              calls[i].state = "awaiting" =>
                 /\ EntryOfCall(i) \in client.pendingRequests
                 /\ calls'[i].state = "settled"
                 /\ calls'[i].inbox = [how |-> "reject", value |-> Err("Process exited")]
        /\ handshake.state = "awaiting" =>
              /\ handshake'.state = "settled"
              /\ handshake'.inbox = [how |-> "reject", value |-> Err("Process exited")] ]_vars

\* C22 witness: the process exited with two calls pending and both were rejected.
C22_Witness ==
    /\ proc = "exited"
    /\ Len(calls) = 2
    /\ \A i \in {1, 2} :
          /\ calls[i].state = "settled"
          /\ calls[i].inbox = [how |-> "reject", value |-> Err("Process exited")]
    /\ client.pendingRequests = {}

\* C30: on a stdio client a caller is settled only from the waiting state and
\* in that step its entry leaves the pending map; once settled, no later
\* response line (a duplicate, a late one) and no exit event changes how it
\* was settled, so no request is settled twice or both resolved and rejected;
\* the pending map holds exactly the entries of the callers still waiting.
C30_SettledAtMostOnce ==
    [][ proc # "none" =>
        /\ \A i \in DOMAIN calls :
              /\ (calls[i].state # "settled" /\ calls'[i].state = "settled") =>
                    /\ calls[i].state = "awaiting"
                    /\ EntryOfCall(i) \in client.pendingRequests
                    /\ EntryOfCall(i) \notin client'.pendingRequests
              /\ calls[i].state = "settled" =>
                    \/ calls'[i] = calls[i]
                    \/ calls'[i].state \in {"returned", "rejected"}
              /\ calls[i].state \in {"returned", "rejected"} => calls'[i] = calls[i]
        /\ (handshake.state # "settled" /\ handshake'.state = "settled") =>
              /\ handshake.state = "awaiting"
              /\ client.pendingRequests # {}
              /\ client'.pendingRequests = {}
        /\ handshake.state = "settled" =>
              handshake' = handshake \/ handshake'.state # "settled"
        /\ handshake.state \in {"returned", "rejected"} => handshake' = handshake
        /\ client'.pendingRequests =
              {[id |-> calls'[i].id, caller |-> i] :
                    i \in {j \in DOMAIN calls' : calls'[j].state = "awaiting"}}
              \cup (IF handshake'.state = "awaiting"
                    THEN {[id |-> sent'[Len(sent')].id, caller |-> 0]}
                    ELSE {}) ]_vars

\* C30 witness: a call that was resolved and has returned, after the process
\* exited with another call still pending.
C30_Witness ==
    /\ proc = "exited"
    /\ Len(calls) = 2
    /\ calls[1].state = "returned"
    /\ calls[2].state = "rejected"
    /\ calls[2].outcome = [how |-> "reject", value |-> Err("Process exited")]
    /\ client.pendingRequests = {}

\* C25: the cached tool list is written once, by the step in which connect
\* returns, and no call, close, response line, exit or later tools response
\* of the peer changes it afterwards; listTools hands out exactly this list
\* and its step writes no request and changes nothing of the client.
C25_ListToolsIsTheCachedSnapshot ==
    [][ /\ client'.tools # client.tools =>
              /\ handshake.state = "settled"
              /\ handshake'.state = "returned"
        /\ handshake'.state = "returned" =>
              /\ client'.tools = Get(Get(handshake'.replies[3], "result"), "tools")
              /\ api'.listed # NotListed => api'.listed = client'.tools
        /\ api'.listed # api.listed =>
              /\ sent' = sent
              /\ client' = client
              /\ calls' = calls
              /\ proc' = proc ]_vars

\* C25 witness: the list handed out after a call returned and the client was
\* closed is the one tool the peer advertised in the handshake.
C25_Witness ==
    /\ api.listed = client.tools
    /\ api.listed.t = "array"
    /\ Len(api.listed.a) = 1
    /\ api.closes >= 1
    /\ client.process = Null
    /\ Len(calls) >= 1
    /\ calls[1].state = "returned"

\* C26: a close() call sets the process field to null and changes nothing
\* else of the client, its calls or what was written; the second and every
\* later close() changes nothing at all; the process of a stdio client is
\* killed by the first close() and never again, and on an HTTP client close()
\* kills nothing and leaves the client as it was.
C26_CloseIsIdempotent ==
    [][ /\ api'.kills <= 1
        /\ api'.closes = api.closes + 1 =>
              /\ client' = [client EXCEPT !.process = Null]
              /\ calls' = calls
              /\ handshake' = handshake
              /\ sent' = sent
              /\ api'.listed = api.listed
              /\ api.closes >= 1 =>
                    /\ client' = client
                    /\ proc' = proc
                    /\ api'.kills = api.kills
              /\ (api.closes = 0 /\ client.httpUrl = Null) =>
                    /\ api'.kills = 1
                    /\ proc' \in {"killed", "exited"}
              /\ client.httpUrl # Null =>
                    /\ client' = client
                    /\ proc' = "none"
                    /\ api'.kills = 0 ]_vars

\* C26 witness: a stdio client closed twice, its process killed once.
C26_Witness ==
    /\ api.closes = 2
    /\ api.kills = 1
    /\ proc = "killed"
    /\ client.process = Null

\* A response with an error member that is an object.
IsErrorShaped(response) == response.t = "object" /\ Get(response, "error").t = "object"

\* A response without an error whose result holds a content list.
HasContentList(response) ==
    /\ response.t = "object"
    /\ ~HasKey(response, "error")
    /\ Get(Get(response, "result"), "content").t = "array"

\* The step in which the i-th call resumes with the response its request was
\* resolved with.
ResumesWithResponse(i) ==
    /\ calls[i].state = "settled"
    /\ calls[i].inbox.how = "resolve"
    /\ calls'[i].state # "settled"

\* C23: a call that resumes with an error-shaped response throws an Error whose
\* message is the response's error.message; a call that resumes with a response
\* that holds a content list and no error returns; without an error member a
\* call throws only when there is no content list to read, and then not with
\* a message of the server.
C23_CallThrowsTheErrorMessage ==
    [][ \A i \in DOMAIN calls :
          ResumesWithResponse(i) =>
             LET response == calls[i].inbox.value IN
             /\ IsErrorShaped(response) =>
                   /\ calls'[i].state = "rejected"
                   /\ calls'[i].outcome.how = "reject"
                   /\ calls'[i].outcome.value.t = "Error"
                   /\ LET message == Get(Get(response, "error"), "message") IN
                      calls'[i].outcome.value.message =
                          (IF message.t = "string" THEN message.s ELSE "")
             /\ HasContentList(response) => calls'[i].state = "returned"
             /\ (~IsErrorShaped(response) /\ calls'[i].state = "rejected") =>
                   /\ ~HasContentList(response)
                   /\ calls'[i].outcome.value.message \notin
                         {"Unknown tool: greet", "Invalid parameters", "Internal error"} ]_vars

\* C23 witness: a call rejected with the message of an 'Invalid parameters' response.
C23_Witness ==
    /\ Len(calls) = 2
    /\ calls[2].state = "rejected"
    /\ calls[2].outcome = [how |-> "reject", value |-> Err("Invalid parameters")]
    /\ calls[1].state = "returned"

\* The text call() decodes: that of the first content item, '' without one.
TextOfFirstItem(response) ==
    LET items == Get(Get(response, "result"), "content").a IN
    IF items = <<>> \/ ~HasKey(items[1], "text") \/ Get(items[1], "text") = Null
    THEN ""
    ELSE Get(items[1], "text").s

\* C24: a call that resumes with a response holding a content list returns
\* the value denoted by the text of the first item when that text is a JSON
\* text, the text itself when it is not, and '' when the list is empty or the
\* first item has no text; items after the first make no difference.
C24_CallDecodesTheFirstText ==
    [][ \A i \in DOMAIN calls :
          (ResumesWithResponse(i) /\ HasContentList(calls[i].inbox.value)) =>
             LET text == TextOfFirstItem(calls[i].inbox.value) IN
             /\ calls'[i].outcome.how = "resolve"
             /\ text = "" => calls'[i].outcome.value = Str("")
             /\ text = "Hello, World!" => calls'[i].outcome.value = Str("Hello, World!")
             /\ text = "42" => calls'[i].outcome.value = Num(42)
             /\ text = "null" => calls'[i].outcome.value = Null
             /\ text = "\"quoted\"" => calls'[i].outcome.value = Str("quoted")
             /\ text = "[]" => calls'[i].outcome.value = Arr(<<>>)
             /\ text = "{\n  \"result\": 8\n}" =>
                   calls'[i].outcome.value = Obj(<<Entry("result", Num(8))>>) ]_vars

\* C24 witness: one call returned the parsed object, another the raw text.
C24_Witness ==
    /\ Len(calls) = 2
    /\ calls[1].outcome = [how |-> "resolve", value |-> Obj(<<Entry("result", Num(8))>>)]
    /\ calls[2].outcome = [how |-> "resolve", value |-> Str("Hello, World!")]

\* The tools/list entry a dispatch returned for the one tool of the registry.
IsToolsList(d) ==
    /\ d.phase = "returned"
    /\ d.req.t = "object"
    /\ MethodOf(d) = Str("tools/list")

ListedSchema(d) == Get(Get(Get(d.resp, "result"), "tools").a[1], "inputSchema")

Subject == tools[1].v.parameters

NamesOf(fields) == [i \in DOMAIN fields |-> Str(fields[i].name)]

\* C27: the inputSchema that tools/list shows for a schema whose root is not
\* an object is exactly { type: 'object', properties: { value: { type: <root> } },
\* required: ['value'] }; for an object root it is type 'object' with one
\* property per declared field, under the field's name, and no wrapper.
C27_WrappingLaw ==
    IsToolsList(last) =>
        IF Subject.root # "object"
        THEN ListedSchema(last) =
                Obj(<<Entry("type", Str("object")),
                      Entry("properties",
                            Obj(<<Entry("value", Obj(<<Entry("type", Str(Subject.root))>>))>>)),
                      Entry("required", Arr(<<Str("value")>>))>>)
        ELSE /\ Get(ListedSchema(last), "type") = Str("object")
             /\ LET properties == Get(ListedSchema(last), "properties") IN
                /\ properties.t = "object"
                /\ [i \in DOMAIN properties.e |-> Str(properties.e[i].k)] = NamesOf(Subject.fields)
                /\ ~HasKey(properties, "value")

\* C27 witness: z.number() listed inside the wrapper.
C27_Witness ==
    /\ IsToolsList(last)
    /\ Subject.root = "number"
    /\ Get(Get(Get(ListedSchema(last), "properties"), "value"), "type") = Str("number")

\* The declared fields that have neither .optional() nor .default().
Unmarked(fields) == SelectSeq(fields, LAMBDA f : ~f.optional /\ ~f.hasDefault)

\* C28: for an object schema every declared field is a property; required
\* lists, in declaration order, exactly the fields with neither a default nor
\* an optional marking, and is left undefined when there is none, as for the
\* empty schema, whose properties are {}.
C28_RequiredFields ==
    (IsToolsList(last) /\ Subject.root = "object") =>
        LET properties == Get(ListedSchema(last), "properties")
            required == Get(ListedSchema(last), "required")
        IN /\ \A i \in DOMAIN Subject.fields :
                 /\ HasKey(properties, Subject.fields[i].name)
                 /\ Get(Get(properties, Subject.fields[i].name), "type")
                       = Str(Subject.fields[i].type)
           /\ IF Unmarked(Subject.fields) = <<>>
              THEN required = Undefined
              ELSE required = Arr(NamesOf(Unmarked(Subject.fields)))
           /\ Subject.fields = <<>> => properties = EmptyObject

\* C28 witness: a default field declared before a plain one; only the plain one
\* is required.
C28_Witness ==
    /\ IsToolsList(last)
    /\ Subject.root = "object"
    /\ Len(Subject.fields) = 2
    /\ Subject.fields[1].hasDefault
    /\ Subject.fields[1].name = "b"
    /\ Get(ListedSchema(last), "required") = Arr(<<Str("a")>>)

EmittedBy(w) ==
    IF transport = "stdio"
    THEN w.out
    ELSE IF w.res.body.kind = "json" THEN <<w.res.body.value>> ELSE <<>>

Emitted == EmittedBy(wire)

\* C34: a payload that JSON.parse accepted is never answered with the Parse
\* error (code -32700, id 0), on stdio and over HTTP alike.
C34_ParseErrorOnlyForUnparseable ==
    (wire.n > 0 /\ wire.input.kind = "json") =>
        \A i \in DOMAIN Emitted : ~IsParseError(Emitted[i])

\* The line numbered n was read and its callback waits for a tool that settles.
Owed(n) == \E i \in DOMAIN pending : pending[i].n = n /\ CanSettle(pending[i].d)

\* C31 (as claimed): over stdio every line whose callback waits for a tool
\* that settles gets its response line written, also when stdin closes while
\* it waits.
C31_EveryLineIsAnswered ==
    \A n \in 1..MaxLines :
        (transport = "stdio" /\ Owed(n)) ~> (wire.n = n /\ Len(wire.out) = 1)

\* The response is the one of the suspended callback p: it carries the id of
\* p's request and what the tool p invoked, with the arguments p gave it,
\* returned or was rejected with.
AnswersOwn(p, out) ==
    /\ Len(out) = 1
    /\ LET response == out[1]
           invoked == p.d.execs[1]
           outcome == Execute(OwnEntry(Str(invoked.tool)), invoked.args)
       IN /\ Get(response, "id") = Get(p.input.value, "id")
          /\ IF outcome.how = "rejects"
             THEN /\ ~HasKey(response, "result")
                  /\ Get(Get(response, "error"), "code") = Num(INTERNAL_ERROR)
                  /\ Get(Get(response, "error"), "data") = ErrorData(outcome.value)
             ELSE /\ ~HasKey(response, "error")
                  /\ Get(Get(Get(response, "result"), "content").a[1], "text")
                        = RenderText(outcome.value)

\* C32: with requests overlapping on a transport, a suspended request that
\* completes, in whatever order, is answered on its own line or connection
\* with its own id and the outcome of its own tool invocation, the other
\* suspended requests staying as they were; and a request that arrives while
\* others are suspended is answered with its own id and disturbs none of them.
C32_OverlappingRequestsKeepTheirOwn ==
    [][ /\ (Len(pending') < Len(pending) /\ io'.written = io.written + 1) =>
              \E i \in DOMAIN pending :
                  /\ pending' = RemoveAt(pending, i)
                  /\ wire'.n = pending[i].n
                  /\ wire'.input = pending[i].input
                  /\ AnswersOwn(pending[i], EmittedBy(wire'))
        /\ (io'.read = io.read + 1 /\ pending # <<>>) =>
              /\ SubSeq(pending', 1, Len(pending)) = pending
              /\ (wire'.input.kind = "json" /\ EmittedBy(wire') # <<>>) =>
                    Get(EmittedBy(wire')[1], "id") = Get(wire'.input.value, "id") ]_vars

\* C32 witness: the second line, a call of reject_tool with the id "1", was
\* answered while the first, a call of greet with the id 1, is still suspended.
C32_Witness ==
    /\ transport = "stdio"
    /\ wire.n = 2
    /\ Len(wire.out) = 1
    /\ Get(wire.out[1], "id") = Str("1")
    /\ Get(Get(wire.out[1], "error"), "data") = Str("upstream unavailable")
    /\ Len(pending) = 1
    /\ pending[1].n = 1
    /\ Get(pending[1].input.value, "id") = Num(1)
    /\ pending[1].d.execs[1].tool = "greet"

\* The suspended callback p waits for a promise that never settles.
Stuck(p) == p.d.pending.how = "never"

\* The request read as number n was answered by the last transport step.
Answered(n) == wire.n = n /\ Len(Emitted) = 1

Exchanged == wire.input.value
ExchangedTool == OwnEntry(Get(Get(Exchanged, "params"), "name"))
ExchangedParse == safeParse(ExchangedTool.parameters, Get(Get(Exchanged, "params"), "arguments"))
ExchangedOutcome == Execute(ExchangedTool, ExchangedParse.data)

\* A value JSON.stringify and JSON.parse carry over unchanged.
RECURSIVE JsonSerializable(_)
JsonSerializable(v) ==
    CASE v.t \in {"null", "number", "boolean", "string"} -> TRUE
      [] v.t = "array" -> \A i \in DOMAIN v.a : JsonSerializable(v.a[i])
      [] v.t = "object" -> \A i \in DOMAIN v.e : JsonSerializable(v.e[i].v)
      [] OTHER -> FALSE

\* C36: when client.call returns or throws for a call the server answered, and
\* the tool was given valid arguments and returned or resolved with v: for an
\* object, array, number, boolean or null v the call returns a value equal
\* to v, and for a string v that is no JSON text it returns v itself.
C36_RoundTrip ==
    [][ \A i \in DOMAIN calls :
          ( /\ calls[i].state = "settled"
            /\ calls'[i].state # "settled"
            /\ ExchangedParse.success
            /\ ExchangedOutcome.how \in {"returns", "resolves"} )
          => LET v == ExchangedOutcome.value IN
             /\ (v.t # "string" /\ JsonSerializable(v)) =>
                   calls'[i].outcome = Resolve(v)
             /\ (v.t = "string" /\ ~ParseText(v).ok) =>
                   calls'[i].outcome = Resolve(v) ]_vars

\* C36 witness: the second call returned { name: 'World', withDefault: 10 },
\* what `complex` returned for { name: 'World' }, after the first had
\* returned the string greet built.
C36_Witness ==
    /\ Len(calls) = 2
    /\ calls[1].outcome = Resolve(Str("Hello, World!"))
    /\ calls[2].state = "returned"
    /\ calls[2].outcome.value.t = "object"
    /\ calls[2].outcome.value =
          Obj(<<Entry("name", Str("World")), Entry("withDefault", Num(10))>>)
    /\ handled = 2

\* JSON Schema validation of a value against { type: 'object', properties,
\* required }: an object that has every required key and whose values, for
\* the keys that have a property schema, are of the type it names.
Conforms(value, schema) ==
    /\ value.t = "object"
    /\ LET required == Get(schema, "required")
           properties == Get(schema, "properties")
       IN /\ required # Undefined =>
                \A i \in DOMAIN required.a : HasKey(value, required.a[i].s)
          /\ \A i \in DOMAIN value.e :
                HasKey(properties, value.e[i].k) =>
                    Str(value.e[i].v.t) = Get(Get(properties, value.e[i].k), "type")

\* C37 (as claimed): a tools/call whose arguments conform to the inputSchema
\* that tools/list shows for the tool passes validation and is executed, for
\* a tool with a non-object schema (shown as { value: <inner> }) as well.
C37_AdvertisedArgumentsAreAccepted ==
    ( /\ last.phase = "returned"
      /\ IsToolsCall(last)
      /\ HasKey(ParamsOf(last), "arguments")
      /\ Conforms(Get(ParamsOf(last), "arguments"), zodToMcpSchema(Subject)) )
    => /\ last.execs # <<>>
       /\ ~HasKey(last.resp, "error")

\* C39 (as claimed): once close() has been called, every call() made on the
\* client fails without a request being sent and without a new entry in
\* pendingRequests, on a stdio client with 'Not connected', and on an HTTP
\* client as well.
C39_ClosedIsTerminal ==
    [][ (api.closes >= 1 /\ Len(calls') = Len(calls) + 1) =>
           /\ calls'[Len(calls')].state = "rejected"
           /\ sent' = sent
           /\ client'.pendingRequests = client.pendingRequests
           /\ client.httpUrl = Null =>
                 calls'[Len(calls')].outcome = Reject(Err("Not connected")) ]_vars

\* C38 (as claimed): on a stdio client whose process has exited and on which
\* close() was not called, a call whose request is pending, written before
\* the exit or after it, leaves that state: its request is settled with a
\* response or an error.
C38_NoRequestPendsAfterExit ==
    \A i \in 1..MaxCalls :
        (proc = "exited" /\ api.closes = 0 /\ i \in DOMAIN calls /\ calls[i].state = "awaiting")
           ~> (i \in DOMAIN calls /\ calls[i].state # "awaiting")

====
